---- MODULE Spec2Model ----
(***************************************************************************)
(* foundation-sql: the repair loop of a declared function                  *)
(* (foundation_sql/query.py), the template cache it reads and writes       *)
(* (foundation_sql/cache.py) and the statement execution of the two        *)
(* engine adapters (foundation_sql/db_drivers.py, foundation_sql/db.py).   *)
(*                                                                         *)
(* A template text is named by a string of the catalog below; the empty    *)
(* string is the empty text.  The backend data is the number of rows of    *)
(* the one table the catalog's statements touch.                           *)
(***************************************************************************)
EXTENDS Integers, Sequences, FiniteSets, TLC

\* ------------------------------------------------------------------ bounds

\* Largest configured repair budget.
MaxRepair == 2

\* Cap of the backend table's row count (guards the writing executions).
MaxRows == 3

\* The concurrent callers of the one declared function.
Calls == {1, 2}

\* ------------------------------------------------- statements and templates

\* Python's None, for a template text.
NoneText == "<None>"

\* The file content right after open(path, 'w') truncated it.
EmptyText == ""

\* The statements of a rendered template, in textual order: the result of
\* query.split(';') with the blank segments dropped.
Stmts(t) ==
  CASE t = "INS_SEL"   -> <<"INSERT", "SELECT">>
    [] t = "INS_BAD"   -> <<"INSERT", "BAD">>
    [] t = "INS"       -> <<"INSERT">>
    [] t = "SEL"       -> <<"SELECT">>
    [] t = "SEL_INS"   -> <<"SELECT", "INSERT">>
    [] t = "SEL_SEL"   -> <<"SELECT", "SELECT">>
    [] t = "INS_INS"   -> <<"INSERT", "INSERT">>
    [] t = "UPD_UPD"   -> <<"UPDATE", "UPDATE">>
    [] t = "DDL_INS"   -> <<"DDL", "INSERT">>
    [] t = "DDL"       -> <<"DDL">>
    [] t = "LIT_BAD"   -> <<"INSERT", "BAD">>
    [] t = "INS_TS"    -> <<"INSERT_TS">>
    [] t = "BAD"       -> <<"BAD">>
    [] OTHER           -> <<>>

\* Whether the templating engine renders the text (it raises on "JINJA_ERR").
Renders(t) == t \notin {"JINJA_ERR", NoneText}

\* What the backend reports and does for one statement.  "UPDATE" touches
\* every row of the table; "DDL" is a CREATE TABLE; "INSERT_TS" is an INSERT
\* with placeholders that names a column created_at.
ReturnsRows(s) == s = "SELECT"
StmtFails(s) == s = "BAD"
StmtWrites(s) == IF s \in {"INSERT", "INSERT_TS"} THEN 1 ELSE 0
\* result.rowcount on data d: the affected rows of a DML statement, -1 where
\* the driver has no count (a SELECT, a DDL statement).
StmtRowcount(s, d) ==
  CASE s \in {"INSERT", "INSERT_TS"} -> 1
    [] s = "UPDATE"                  -> d
    [] s \in {"SELECT", "DDL"}       -> -1
    [] OTHER                         -> 0

\* -------------------------------------------------------- execution outcome

NoOutcome == [kind |-> "none", n |-> 0, src |-> 0]
IntOutcome(n) == [kind |-> "int", n |-> n, src |-> 0]
\* The rows fetched from statement number src, n rows of them.
RowsOutcome(src, n) == [kind |-> "rows", n |-> n, src |-> src]

NoError == "none"

\* One statement handed to the backend: its position in the body, the
\* statement, and whether the bound parameters went with it.
Sent(i, s, bound) == [i |-> i, s |-> s, bound |-> bound]

\* The state of one pass over the statements: data d, summed rowcount total,
\* index last of the last row-returning statement (0: none) with its rows,
\* err once a statement raised, and log, the statements handed to the
\* backend so far.
RunState(d, total, last, lastN, err, log) ==
  [d |-> d, total |-> total, last |-> last, lastN |-> lastN, err |-> err,
   log |-> log]

\* SQLAlchemyAdapter.run_sql, the statement loop: each statement is executed
\* in textual order with params, its rowcount added, and a row-returning
\* result kept as last_result; a raising statement ends the loop.
RECURSIVE SyncLoop(_, _, _)
SyncLoop(stmts, i, st) ==
  IF i > Len(stmts) \/ st.err # NoError THEN st
  ELSE IF StmtFails(stmts[i])
       THEN [st EXCEPT !.err = "exec",
                       !.log = Append(@, Sent(i, stmts[i], TRUE))]
       ELSE SyncLoop(stmts, i + 1,
              RunState(st.d + StmtWrites(stmts[i]),
                       st.total + StmtRowcount(stmts[i], st.d),
                       IF ReturnsRows(stmts[i]) THEN i ELSE st.last,
                       IF ReturnsRows(stmts[i]) THEN st.d ELSE st.lastN,
                       NoError,
                       Append(st.log, Sent(i, stmts[i], TRUE))))

\* The result of one run: the error kind (NoError on success), the outcome,
\* the backend data afterwards and the statements handed to the backend.
RunResult(err, out, d, log) == [err |-> err, out |-> out, d |-> d, log |-> log]

\* Variant: the summed rowcount is returned even when a statement returned
\* rows.
SyncRunSql_ReturnsCount(t, d, late) ==
  IF ~Renders(t) THEN RunResult("render", NoOutcome, d, <<>>)
  ELSE LET st == SyncLoop(Stmts(t), 1, RunState(d, 0, 0, 0, NoError, <<>>))
       IN IF st.err # NoError THEN RunResult(st.err, NoOutcome, d, st.log)
          ELSE RunResult(NoError, IntOutcome(st.total), st.d, st.log)

\* Variant: the writes made before the failing statement stay.
SyncRunSql_NoRollback(t, d, late) ==
  IF ~Renders(t) THEN RunResult("render", NoOutcome, d, <<>>)
  ELSE LET st == SyncLoop(Stmts(t), 1, RunState(d, 0, 0, 0, NoError, <<>>))
       IN IF st.err # NoError THEN RunResult(st.err, NoOutcome, st.d, st.log)
          ELSE IF st.last # 0
               THEN RunResult(NoError,
                      RowsOutcome(st.last, IF late THEN st.d ELSE st.lastN),
                      st.d, st.log)
               ELSE RunResult(NoError, IntOutcome(st.total), st.d, st.log)

\* SQLAlchemyAdapter.run_sql: render, then run the statements on one
\* connection inside one transaction, which the scoped release rolls back
\* when a statement raises.  The rows of last_result are fetched after the
\* loop; late tells whether that cursor sees the writes of the statements
\* that followed it on the same connection (the driver leaves it open).
SyncRunSql(t, d, late) ==
  IF ~Renders(t) THEN RunResult("render", NoOutcome, d, <<>>)
  ELSE LET st == SyncLoop(Stmts(t), 1, RunState(d, 0, 0, 0, NoError, <<>>))
       IN IF st.err # NoError THEN RunResult(st.err, NoOutcome, d, st.log)
          ELSE IF st.last # 0
               THEN RunResult(NoError,
                      RowsOutcome(st.last, IF late THEN st.d ELSE st.lastN),
                      st.d, st.log)
               ELSE RunResult(NoError, IntOutcome(st.total), st.d, st.log)

\* Whether the text holds a substitution marker ('{{' in template).
HasMarker(t) ==
  t \in {"INS", "INS_SEL", "INS_BAD", "INS_INS", "DDL_INS", "INS_TS", "JINJA_ERR"}

\* statement.strip().lower().startswith("select")
IsSelect(s) == s = "SELECT"

\* any(keyword in statement.upper() for keyword in ['CREATE', 'DROP',
\* 'ALTER', 'TRUNCATE']): a substring test, which CREATED_AT matches too.
IsSchemaOp(s) == s \in {"DDL", "INSERT_TS"}

\* Whether the backend rejects the statement when it comes without its
\* parameters: it holds placeholders.
FailsUnbound(s) == s = "INSERT_TS"

\* _parse_rowcount of the status the backend returns for a statement: the
\* last word of 'INSERT 0 1', 'UPDATE 2', 'SELECT 3', ...; 0 when it is no
\* number ('CREATE TABLE').
ParseRowcount(s, d) ==
  CASE s \in {"INSERT", "INSERT_TS"} -> 1
    [] s \in {"UPDATE", "SELECT"}    -> d
    [] OTHER                         -> 0

\* AsyncpgAdapter.run_sql_async, templated path: the statements run one by
\* one on a pooled connection, outside any transaction; a statement that
\* starts with "select" is fetched and becomes last_result; a schema
\* operation is executed without the parameters.
RECURSIVE AsyncLoop(_, _, _)
AsyncLoop(stmts, i, st) ==
  IF i > Len(stmts) \/ st.err # NoError THEN st
  ELSE LET s == stmts[i]
           bound == IsSelect(s) \/ ~IsSchemaOp(s)
       IN IF StmtFails(s) \/ (~bound /\ FailsUnbound(s))
          THEN [st EXCEPT !.err = "exec",
                          !.log = Append(@, Sent(i, s, bound))]
          ELSE AsyncLoop(stmts, i + 1,
                 RunState(st.d + StmtWrites(s),
                          st.total + ParseRowcount(s, st.d),
                          IF IsSelect(s) THEN i ELSE st.last,
                          IF IsSelect(s) THEN st.d ELSE st.lastN,
                          NoError,
                          Append(st.log, Sent(i, s, bound))))

\* AsyncpgAdapter.run_sql_async, the path of a text without markers: the
\* whole text goes to the backend in one piece, with no parameter.  fetch
\* takes one single command; execute runs the commands as one implicit
\* transaction and returns the status of the last one.  Nothing wraps the
\* backend's error.
AsyncFastPath(t, d) ==
  LET stmts == Stmts(t)
      st == SyncLoop(stmts, 1, RunState(d, 0, 0, 0, NoError, <<>>))
  IN IF Len(stmts) > 0 /\ IsSelect(stmts[1])
     THEN IF Len(stmts) > 1 THEN RunResult("raw", NoOutcome, d, <<>>)
          ELSE IF st.err # NoError THEN RunResult("raw", NoOutcome, d, st.log)
          ELSE RunResult(NoError, RowsOutcome(1, d), st.d, st.log)
     ELSE IF st.err # NoError THEN RunResult("raw", NoOutcome, d, st.log)
          ELSE IF Len(stmts) = 0 THEN RunResult(NoError, IntOutcome(0), d, <<>>)
          ELSE RunResult(NoError,
                 IntOutcome(ParseRowcount(stmts[Len(stmts)],
                                          st.d - StmtWrites(stmts[Len(stmts)]))),
                 st.d, st.log)

\* Variant: the connection is taken and the first statement sent before the
\* rendering is found to fail.
AsyncTemplatedPath_RendersLate(t, d) ==
  IF ~Renders(t)
  THEN RunResult("render", NoOutcome, d + 1, <<Sent(1, "INSERT", TRUE)>>)
  ELSE LET st == AsyncLoop(Stmts(t), 1, RunState(d, 0, 0, 0, NoError, <<>>))
       IN IF st.err # NoError THEN RunResult(st.err, NoOutcome, st.d, st.log)
          ELSE IF st.last # 0
               THEN RunResult(NoError, RowsOutcome(st.last, st.lastN), st.d,
                              st.log)
               ELSE RunResult(NoError, IntOutcome(st.total), st.d, st.log)

\* AsyncpgAdapter.run_sql_async, the path of a text with markers: render,
\* split, run the statements in textual order, and return the rows of the
\* last fetched statement, otherwise the summed row counts.
AsyncTemplatedPath(t, d) ==
  IF ~Renders(t) THEN RunResult("render", NoOutcome, d, <<>>)
  ELSE LET st == AsyncLoop(Stmts(t), 1, RunState(d, 0, 0, 0, NoError, <<>>))
       IN IF st.err # NoError THEN RunResult(st.err, NoOutcome, st.d, st.log)
          ELSE IF st.last # 0
               THEN RunResult(NoError, RowsOutcome(st.last, st.lastN), st.d,
                              st.log)
               ELSE RunResult(NoError, IntOutcome(st.total), st.d, st.log)

\* AsyncpgAdapter.run_sql_async.
AsyncRunSql(t, d) ==
  IF t = NoneText THEN RunResult("raw", NoOutcome, d, <<>>)
  ELSE IF ~HasMarker(t) THEN AsyncFastPath(t, d)
  ELSE AsyncTemplatedPath(t, d)

\* ------------------------------------------------------------ materializer

NoValue == [kind |-> "none", n |-> 0, src |-> 0]
ParseOk(v) == [ok |-> TRUE, val |-> v]
ParseFails == [ok |-> FALSE, val |-> NoValue]

\* Variant: an integer outcome is mapped to the default 0.
ParseResult_IntDefault(sh, out) ==
  IF sh = "list"
  THEN IF out.kind = "rows"
       THEN ParseOk([kind |-> "list", n |-> out.n, src |-> out.src])
       ELSE ParseFails
  ELSE IF out.kind = "int" \/ sh = "count"
       THEN ParseOk([kind |-> "int", n |-> 0, src |-> 0])
  ELSE IF out.n > 0 THEN ParseOk([kind |-> "obj", n |-> 1, src |-> out.src])
  ELSE ParseOk([kind |-> "null", n |-> 0, src |-> 0])

\* SQLQueryDecorator.__call__._parse_result for the declared return shape:
\* "list" (wrapper == 'list'), "count" (return type int), "scalar" (a struct).
\* An integer outcome has no .all(), so the list shape raises on it.
ParseResult(sh, out) ==
  IF sh = "list"
  THEN IF out.kind = "rows"
       THEN ParseOk([kind |-> "list", n |-> out.n, src |-> out.src])
       ELSE ParseFails
  ELSE IF out.kind = "int" THEN ParseOk([kind |-> "int", n |-> out.n, src |-> 0])
  ELSE IF sh = "count" THEN ParseOk([kind |-> "int", n |-> 0, src |-> 0])
  ELSE IF out.n > 0 THEN ParseOk([kind |-> "obj", n |-> 1, src |-> out.src])
  ELSE ParseOk([kind |-> "null", n |-> 0, src |-> 0])

\* ---------------------------------------------------------------- unflatten

\* A mapping is a function from keys to values; a key is the sequence of the
\* segments that NESTED_SPLITTER separates in it ("profile.bio" is
\* <<"profile", "bio">>).  A value is None, a scalar or a mapping.
Null == [t |-> "null", v |-> "", m |-> <<>>]
Leaf(v) == [t |-> "leaf", v |-> v, m |-> <<>>]
Dict(m) == [t |-> "dict", v |-> "", m |-> m]

\* NESTED_SPLITTER in key
HasSplitter(key) == Len(key) > 1

\* all(v is None for v in d.values())
AllNone(d) == \A k \in DOMAIN d : d[k] = Null

RECURSIVE Unflatten(_)

\* Variant: a group that was unflattened recursively is never collapsed.
Unflatten_NoDeepCollapse(flat_dict) ==
  LET direct_keys == {k \in DOMAIN flat_dict : ~HasSplitter(k)}
      prefixes == {k[1] : k \in DOMAIN flat_dict \ direct_keys}
      grouped_keys(p) ==
        [rest \in {Tail(k) : k \in {x \in DOMAIN flat_dict :
                                      HasSplitter(x) /\ x[1] = p}} |->
           flat_dict[<<p>> \o rest]]
      nested(p) ==
        LET nested_dict == grouped_keys(p)
        IN IF \E r \in DOMAIN nested_dict : HasSplitter(r)
           THEN Dict(Unflatten(nested_dict))
           ELSE IF AllNone(nested_dict) THEN Null ELSE Dict(nested_dict)
  IN [k \in direct_keys \cup {<<p>> : p \in prefixes} |->
        IF k[1] \in prefixes THEN nested(k[1]) ELSE flat_dict[k]]

\* Variant: a direct key whose value is None is left out of the result.
Unflatten_DropsNullDirect(flat_dict) ==
  LET direct_keys == {k \in DOMAIN flat_dict : ~HasSplitter(k)}
      prefixes == {k[1] : k \in DOMAIN flat_dict \ direct_keys}
      kept == {k \in direct_keys : flat_dict[k] # Null}
      grouped_keys(p) ==
        [rest \in {Tail(k) : k \in {x \in DOMAIN flat_dict :
                                      HasSplitter(x) /\ x[1] = p}} |->
           flat_dict[<<p>> \o rest]]
      nested(p) ==
        LET nested_dict == grouped_keys(p)
        IN IF \E r \in DOMAIN nested_dict : HasSplitter(r)
           THEN LET nested_result == Unflatten(nested_dict)
                IN IF AllNone(nested_result) THEN Null ELSE Dict(nested_result)
           ELSE IF AllNone(nested_dict) THEN Null ELSE Dict(nested_dict)
  IN [k \in kept \cup {<<p>> : p \in prefixes} |->
        IF k[1] \in prefixes THEN nested(k[1]) ELSE flat_dict[k]]

\* unflatten_dict: the keys without a splitter are copied; the others are
\* grouped by their first segment, each group is unflattened in turn when
\* one of its keys still holds a splitter, and a group whose values are all
\* None becomes None.  A group replaces a direct key of the same name.
Unflatten(flat_dict) ==
  LET direct_keys == {k \in DOMAIN flat_dict : ~HasSplitter(k)}
      prefixes == {k[1] : k \in DOMAIN flat_dict \ direct_keys}
      grouped_keys(p) ==
        [rest \in {Tail(k) : k \in {x \in DOMAIN flat_dict :
                                      HasSplitter(x) /\ x[1] = p}} |->
           flat_dict[<<p>> \o rest]]
      nested(p) ==
        LET nested_dict == grouped_keys(p)
        IN IF \E r \in DOMAIN nested_dict : HasSplitter(r)
           THEN LET nested_result == Unflatten(nested_dict)
                IN IF AllNone(nested_result) THEN Null ELSE Dict(nested_result)
           ELSE IF AllNone(nested_dict) THEN Null ELSE Dict(nested_dict)
  IN [k \in direct_keys \cup {<<p>> : p \in prefixes} |->
        IF k[1] \in prefixes THEN nested(k[1]) ELSE flat_dict[k]]

\* ------------------------------------------------------------------- bind

\* The target types of a bind: int, NoneType and the struct T, which has the
\* required fields id (an integer) and name (a text).
ModelClasses == {"int", "NoneType", "T"}

\* The outcome of a bind: the value, or that it raised.
BindOk(v) == [ok |-> TRUE, val |-> v]
BindRaises == [ok |-> FALSE, val |-> Null]

\* int(v) accepts the text of a number.
Numeric(v) == v \in {Leaf("0"), Leaf("1"), Leaf("2")}

\* next(iter(d.values())): the value of the first column; the columns come
\* in the order id, name.
FirstValue(d) ==
  IF <<"id">> \in DOMAIN d THEN d[<<"id">>]
  ELSE d[CHOOSE k \in DOMAIN d : TRUE]

\* T(**d): the validation of the struct.
Validates(d) ==
  /\ DOMAIN d = {<<"id">>, <<"name">>}
  /\ Numeric(d[<<"id">>])
  /\ d[<<"name">>].t = "leaf"

\* Variant: the row is bound without the test for an empty one.
ParseQueryToPydantic_NoEmptyCheck(data, model_class) ==
  IF data = Null \/ DOMAIN data.m = {} THEN BindRaises
  ELSE LET unflattened_data == Unflatten(data.m)
       IN IF model_class = "int"
          THEN IF Numeric(FirstValue(unflattened_data))
               THEN BindOk(FirstValue(unflattened_data))
               ELSE BindRaises
          ELSE IF model_class = "NoneType" THEN BindOk(Null)
          ELSE IF Validates(unflattened_data)
               THEN BindOk(Dict(unflattened_data))
               ELSE BindRaises

\* parse_query_to_pydantic: None for a row that is None or empty; else the
\* row is unflattened and turned into the target type, which raises when
\* int() or the struct's validation rejects it.
ParseQueryToPydantic(data, model_class) ==
  IF data = Null \/ DOMAIN data.m = {} THEN BindOk(Null)
  ELSE LET unflattened_data == Unflatten(data.m)
       IN IF model_class = "int"
          THEN IF Numeric(FirstValue(unflattened_data))
               THEN BindOk(FirstValue(unflattened_data))
               ELSE BindRaises
          ELSE IF model_class = "NoneType" THEN BindOk(Null)
          ELSE IF Validates(unflattened_data)
               THEN BindOk(Dict(unflattened_data))
               ELSE BindRaises

\* QueryResult.first(): self.rows[0] if self.rows else None
First(rs) == IF Len(rs) > 0 THEN Dict(rs[1]) ELSE Null

\* _parse_result, the branch of a struct or none: the first row is bound
\* when there is one that is not empty.
ParseFirst(rs, model_class) ==
  LET first_row == First(rs)
  IN IF first_row = Null \/ DOMAIN first_row.m = {} THEN BindOk(Null)
     ELSE ParseQueryToPydantic(first_row, model_class)

\* Variant: the bound rows come out in reverse order.
ParseList_Reversed(rs, model_class) ==
  LET each == [i \in 1 .. Len(rs) |->
                 ParseQueryToPydantic(Dict(rs[Len(rs) + 1 - i]), model_class)]
  IN IF \A i \in 1 .. Len(rs) : each[i].ok
     THEN BindOk([i \in 1 .. Len(rs) |-> each[i].val])
     ELSE [ok |-> FALSE, val |-> <<>>]

\* _parse_result, the branch of wrapper == "list": every row of
\* result_data.all() is bound in turn; one raising bind makes the whole
\* materialization raise.
ParseList(rs, model_class) ==
  LET each == [i \in 1 .. Len(rs) |->
                 ParseQueryToPydantic(Dict(rs[i]), model_class)]
  IN IF \A i \in 1 .. Len(rs) : each[i].ok
     THEN BindOk([i \in 1 .. Len(rs) |-> each[i].val])
     ELSE [ok |-> FALSE, val |-> <<>>]

\* Nothing was bound yet.  kind is "row" (parse_query_to_pydantic on data),
\* "first" or "list" (the materializer on the rows).
NotBound ==
  [kind |-> "none", model_class |-> "", data |-> Null, res |-> BindRaises]

\* ----------------------------------------------------- adapter and cache

\* An adapter right after its construction: asynchronous, no pool yet
\* (self.pool = None); synchronous, an engine whose pool holds no
\* connection.  open tells whether the pool is open, idle counts the
\* connections the engine's pool keeps, closes the calls of close, released
\* the pools and connections given back to the backend, last the latest
\* operation and raised whether it raised; held counts the connections
\* taken and not yet given back, created the pools created since the last
\* close.
NewAdapter ==
  [open |-> FALSE, idle |-> 0, held |-> 0, created |-> 0, runs |-> 0,
   closes |-> 0, released |-> 0, last |-> "new", raised |-> FALSE]

\* The names of the template files.
CacheKeys == {"get_users.sql", "create_user.sql", "get_bikes.sql"}

\* The backend urls given to get_db.
Urls == {"sqlite:///a.db", "sqlite:///b.db"}

\* DATABASES = {}: no Database is registered.  A Database is named by the
\* caller whose get_db constructed it.
NoDatabases == [u \in Urls |-> 0]

\* A caller to which get_db has not returned yet.
NotGot == [url |-> "", inst |-> 0]

\* No declared function, and no text obtained from sql_gen yet.
NoDecl == [func_name |-> "", name |-> NoneText, shape |-> "", url |-> "",
           regen |-> FALSE]

NoTmpl == [how |-> "none", exists |-> FALSE, text |-> <<>>]

\* A path without a file, and a file with its content.  A text is the
\* sequence of its characters: "S" stands for any character other than a
\* line feed "LF" and a carriage return "CR".
NoFile == [exists |-> FALSE, text |-> <<>>]

File(t) == [exists |-> TRUE, text |-> t]

\* A cache directory without files.
EmptyDir == [k \in CacheKeys |-> NoFile]

\* os.linesep of the platform the engine runs on.
LineSep == <<"LF">>

\* f.write(template) of a file opened with open(path, 'w'): text mode,
\* every line feed is written as os.linesep.
RECURSIVE WriteText(_)
WriteText(t) ==
  IF t = <<>> THEN <<>>
  ELSE (IF Head(t) = "LF" THEN LineSep ELSE <<Head(t)>>) \o WriteText(Tail(t))

\* f.read() of a file opened with open(path, 'r'): text mode with universal
\* newlines, "\r\n" and a lone "\r" are read as "\n".
RECURSIVE ReadText(_)
ReadText(t) ==
  IF t = <<>> THEN <<>>
  ELSE IF Head(t) = "CR"
       THEN <<"LF">> \o
            ReadText(IF Len(t) >= 2 /\ t[2] = "LF" THEN Tail(Tail(t))
                     ELSE Tail(t))
       ELSE <<Head(t)>> \o ReadText(Tail(t))

\* SQLTemplateCache.set
TemplateSet(dir, key, template) ==
  [dir EXCEPT ![key] = File(WriteText(template))]

\* SQLTemplateCache.get: the text read from the key's file, None without
\* a file.
TemplateGet(dir, key) ==
  IF dir[key].exists THEN File(ReadText(dir[key].text)) ELSE NoFile

\* SQLTemplateCache.exists
TemplateExists(dir, key) == dir[key].exists

\* SQLTemplateCache.clear: with a key its file is removed when there is
\* one, with None every file of the directory.
TemplateClear(dir, key) ==
  IF key # NoneText
  THEN [dir EXCEPT ![key] = NoFile]
  ELSE [k \in DOMAIN dir |-> NoFile]


\* ------------------------------------------------------------- repair loop

VARIABLES
  regen,         \* SQLQueryDecorator.regen
  repair,        \* SQLQueryDecorator.repair: [isint, v]
  is_async,      \* inspect.iscoroutinefunction(func), fixed at decoration
  shape,         \* the declared return shape
  adapter_mode,  \* the adapter_mode argument given to SQLQueryDecorator(...)
  cache,         \* the content of the template key's cache file
  db,            \* the backend data: the table's row count
  pc,            \* each call's position
  it,            \* each call's index in range(attempts)
  sql_template,  \* each call's local sql_template
  gen_text,      \* each call's text between generate_sql and cache.set
  error,         \* each call's local error
  last_exc,      \* each call's local last_exc
  result_data,   \* each call's local result_data
  ret,           \* what each call handed to its caller
  hist,          \* per call: what it did so far (observation only)
  flat_dict,     \* the mapping given to unflatten_dict
  unflattened,   \* what unflatten_dict returned for it
  applied,       \* how often unflatten_dict was applied
  rows,          \* the rows of the QueryResult given to the materializer
  bound,         \* what binding the row or the rows gave
  adapter,       \* one engine adapter: its pool or engine and what it did
  cache_dir,     \* the files of the cache directory, by file name
  latest,        \* by key, the text of the latest set (observation only)
  DATABASES,     \* db.DATABASES: by url, the Database registered (0: none)
  engines,       \* by url, the callers that constructed a Database for it
  got,           \* what get_db returned to each caller last
  decl,          \* two declared functions: name, override, shape, url, regen
  tmpl           \* what sql_gen returned to each of the two last, and how

vars == <<regen, repair, is_async, shape, adapter_mode, cache, db, pc, it,
          sql_template, gen_text, error, last_exc, result_data, ret, hist,
          flat_dict, unflattened, applied, rows, bound, adapter, cache_dir,
          latest, DATABASES, engines, got, decl, tmpl>>

\* The variables of the row binder, which the repair loop's steps leave
\* alone.
binder == <<flat_dict, unflattened, applied, rows, bound>>

\* The variables of the adapter's and the cache's own operations, which the
\* repair loop's steps leave alone as well.
svc == <<adapter, cache_dir, latest, DATABASES, engines, got, decl, tmpl>>

config == <<regen, repair, is_async, shape, adapter_mode>>

\* An exception object: its kind and the attempt that captured it.
NoExc == [kind |-> "none", att |-> 0]
Exc(k, a) == [kind |-> k, att |-> a]

\* The error string handed to the generator: its prefix and the exception.
NoErrorStr == [prefix |-> "none", exc |-> NoExc]
ErrorStr(p, e) == [prefix |-> p, exc |-> e]

NoRet == [how |-> "none", val |-> NoValue, exc |-> NoExc]

\* The texts the generator may answer, and the pre-seeded cache contents.
GenTexts == {"INS_SEL", "INS_BAD", "INS", "JINJA_ERR"}
SeedTexts == {"INS_SEL", "INS_BAD"}

RepairValues ==
  {[isint |-> TRUE, v |-> n] : n \in -1 .. MaxRepair} \cup {[isint |-> FALSE, v |-> 0]}

\* Variant: one attempt too many.
Attempts_OneMore(r) == IF r.isint /\ r.v >= 0 THEN r.v + 2 ELSE 1

\* attempts = self.repair + 1 if isinstance(self.repair, int) and
\* self.repair >= 0 else 1
Attempts(r) == IF r.isint /\ r.v >= 0 THEN r.v + 1 ELSE 1

\* What a call did so far: its passes through sql_gen, its calls of the
\* generator, of run_sql and of cache.set; the text the current pass of
\* sql_gen produced or read and whether it regenerated; the text handed to
\* the latest run and the backend data before it; the attempt and the stage
\* ("execute", "parse") of the latest captured failure; the statements a
\* direct run handed to the backend; the calls of create_user that returned
\* before the current call.
NoHist ==
  [passes |-> 0, gens |-> 0, execs |-> 0, sets |-> 0, obtained |-> NoneText,
   regenerated |-> FALSE, executed |-> NoneText, dbBefore |-> 0,
   failAtt |-> 0, failStage |-> "none", log |-> <<>>, created |-> 0]

\* No row is being bound.
BinderIdle ==
  /\ flat_dict = <<>> /\ unflattened = <<>> /\ applied = 0
  /\ rows = <<>> /\ bound = NotBound

\* A fresh adapter and an empty cache directory in no use.
SvcIdle ==
  /\ adapter = NewAdapter /\ cache_dir = EmptyDir /\ latest = EmptyDir
  /\ DATABASES = NoDatabases
  /\ engines = [u \in Urls |-> {}]
  /\ got = [c \in Calls |-> NotGot]
  /\ decl = [c \in Calls |-> NoDecl]
  /\ tmpl = [c \in Calls |-> NoTmpl]

Init ==
  /\ regen \in BOOLEAN
  /\ repair \in RepairValues
  /\ is_async \in BOOLEAN
  /\ shape \in {"list", "count", "scalar"}
  /\ cache \in SeedTexts \cup {NoneText}
  /\ db = 0
  /\ pc = [c \in Calls |-> "idle"]
  /\ it = [c \in Calls |-> 0]
  /\ sql_template = [c \in Calls |-> NoneText]
  /\ gen_text = [c \in Calls |-> NoneText]
  /\ error = [c \in Calls |-> NoErrorStr]
  /\ last_exc = [c \in Calls |-> NoExc]
  /\ result_data = [c \in Calls |-> NoOutcome]
  /\ ret = [c \in Calls |-> NoRet]
  /\ hist = [c \in Calls |-> NoHist]
  /\ adapter_mode = "unset"
  /\ BinderIdle
  /\ SvcIdle

\* The positions inside sql_gen, which holds no await.
InSqlGen == {"sql_gen", "generate", "cache_open", "cache_write", "cache_get"}

\* Asynchronous calls share one event loop and yield only at the awaits of
\* run_sql_async; synchronous calls on several threads interleave freely.
MayRun(c) == is_async => \A d \in Calls \ {c} : pc[d] \notin InSqlGen

\* The statements after the loop: 'if last_exc: raise last_exc', then
\* raise RuntimeError("SQL generation failed without explicit exception").
AfterLoop(e) == IF e # NoExc THEN e ELSE Exc("runtime", 0)

\* The wrapper is called: the locals of _execute_sync / _execute_async.
\* The first iteration starts unless range(attempts) is empty, in which
\* case the statements after the loop run at once.
CallStart(c) ==
  /\ pc[c] = "idle"
  /\ MayRun(c)
  /\ IF Attempts(repair) >= 1
     THEN /\ pc' = [pc EXCEPT ![c] = "sql_gen"]
          /\ ret' = ret
     ELSE /\ pc' = [pc EXCEPT ![c] = "raised"]
          /\ ret' = [ret EXCEPT ![c] = [how |-> "raise", val |-> NoValue,
                                        exc |-> AfterLoop(last_exc[c])]]
  /\ UNCHANGED <<binder, svc, config, cache, db, it, sql_template, gen_text, error,
                 last_exc, result_data, hist>>

\* Variant: a carried error does not force a regeneration.
NeedsGenerate_IgnoresError(c) == regen \/ cache = NoneText

\* sql_gen's condition: self.regen or not self.cache.exists(template_name)
\* or error
NeedsGenerate(c) == regen \/ cache = NoneText \/ error[c] # NoErrorStr

SqlGenCheck(c) ==
  /\ pc[c] = "sql_gen"
  /\ MayRun(c)
  /\ pc' = [pc EXCEPT ![c] = IF NeedsGenerate(c) THEN "generate" ELSE "cache_get"]
  /\ hist' = [hist EXCEPT ![c].passes = @ + 1]
  /\ UNCHANGED <<binder, svc, config, cache, db, it, sql_template, gen_text, error,
                 last_exc, result_data, ret>>

\* Variant: the prompt names the error and not the text that was run.
GeneratePrompt_NoTemplate(c) == [error |-> error[c], prev_template |-> NoneText]

\* generate_prompt(kwargs, error, prev_template) with the arguments sql_gen
\* was called with: the error part of the prompt, which holds both the
\* previous text and the error string, is written only when there is an
\* error.
GeneratePrompt(c) ==
  IF error[c] # NoErrorStr
  THEN [error |-> error[c], prev_template |-> sql_template[c]]
  ELSE [error |-> NoErrorStr, prev_template |-> NoneText]

\* generate_sql answers a text.
GenerateSql(c) ==
  /\ pc[c] = "generate"
  /\ MayRun(c)
  /\ \E t \in GenTexts : gen_text' = [gen_text EXCEPT ![c] = t]
  /\ pc' = [pc EXCEPT ![c] = "cache_open"]
  /\ hist' = [hist EXCEPT ![c].gens = @ + 1]
  /\ UNCHANGED <<binder, svc, config, cache, db, it, sql_template, error, last_exc,
                 result_data, ret>>

\* An exception raised inside sql_gen: the call of sql_gen stands outside
\* the try blocks of the loop, so it leaves the wrapper at once.
RaiseFromSqlGen(c, k) ==
  /\ pc' = [pc EXCEPT ![c] = "raised"]
  /\ ret' = [ret EXCEPT ![c] = [how |-> "raise", val |-> NoValue,
                                exc |-> Exc(k, it[c] + 1)]]

\* generate_sql raises (the completion service fails).
GenerateFails(c) ==
  /\ pc[c] = "generate"
  /\ MayRun(c)
  /\ RaiseFromSqlGen(c, "gen")
  /\ hist' = [hist EXCEPT ![c].gens = @ + 1]
  /\ UNCHANGED <<binder, svc, config, cache, db, it, sql_template, gen_text, error,
                 last_exc, result_data>>

\* cache.set, open(cache_file, 'w'): the file is truncated.
CacheSetOpen(c) ==
  /\ pc[c] = "cache_open"
  /\ MayRun(c)
  /\ cache' = EmptyText
  /\ pc' = [pc EXCEPT ![c] = "cache_write"]
  /\ UNCHANGED <<binder, svc, config, db, it, sql_template, gen_text, error, last_exc,
                 result_data, ret, hist>>

\* cache.set, open(cache_file, 'w') raises (the file cannot be opened).
CacheSetFails(c) ==
  /\ pc[c] = "cache_open"
  /\ MayRun(c)
  /\ RaiseFromSqlGen(c, "cache")
  /\ UNCHANGED <<binder, svc, config, cache, db, it, sql_template, gen_text, error,
                 last_exc, result_data, hist>>

\* cache.set, f.write(template) and the close that flushes it; sql_gen
\* returns the generated text.
CacheSetWrite(c) ==
  /\ pc[c] = "cache_write"
  /\ MayRun(c)
  /\ cache' = gen_text[c]
  /\ sql_template' = [sql_template EXCEPT ![c] = gen_text[c]]
  /\ pc' = [pc EXCEPT ![c] = "execute"]
  /\ hist' = [hist EXCEPT ![c].sets = @ + 1, ![c].obtained = gen_text[c],
                          ![c].regenerated = TRUE]
  /\ UNCHANGED <<binder, svc, config, db, it, gen_text, error, last_exc, result_data, ret>>

\* cache.get: the file's content now, None when there is no file; sql_gen
\* returns it.
CacheGet(c) ==
  /\ pc[c] = "cache_get"
  /\ MayRun(c)
  /\ sql_template' = [sql_template EXCEPT ![c] = cache]
  /\ pc' = [pc EXCEPT ![c] = "execute"]
  /\ hist' = [hist EXCEPT ![c].obtained = cache, ![c].regenerated = FALSE]
  /\ UNCHANGED <<binder, svc, config, cache, db, it, gen_text, error, last_exc,
                 result_data, ret>>

\* Variant: the text is read from the cache again when it is executed.
TextToExecute_Reread(c) == cache

\* The text the loop hands to run_sql / run_sql_async.
TextToExecute(c) == sql_template[c]

\* db.run_sql(self.db_url, sql_template, **kwargs), or
\* database.run_sql_async(sql_template, **kwargs).
RunSql(c, late) ==
  IF is_async THEN AsyncRunSql(TextToExecute(c), db)
  ELSE SyncRunSql(TextToExecute(c), db, late)

\* The prefix of the error string of an exception kind.
ErrorPrefix(k) == IF k = "parse" THEN "Parsing/Validation error" ELSE "Execution error"

\* Variant: only the first exception is kept in last_exc.
CaptureAndContinue_KeepsFirst(c, k) ==
  LET e == Exc(k, it[c] + 1) IN
  /\ last_exc' = [last_exc EXCEPT ![c] = IF @ = NoExc THEN e ELSE @]
  /\ error' = [error EXCEPT ![c] = ErrorStr(ErrorPrefix(k), e)]
  /\ it' = [it EXCEPT ![c] = @ + 1]
  /\ IF it[c] + 1 < Attempts(repair)
     THEN /\ pc' = [pc EXCEPT ![c] = "sql_gen"]
          /\ ret' = ret
     ELSE /\ pc' = [pc EXCEPT ![c] = "raised"]
          /\ ret' = [ret EXCEPT ![c] = [how |-> "raise", val |-> NoValue,
                                        exc |-> last_exc'[c]]]

\* An except branch of the loop and what follows its continue: last_exc and
\* error are set, and the loop either starts its next iteration or, with
\* range(attempts) used up, raises last_exc.
CaptureAndContinue(c, k) ==
  LET e == Exc(k, it[c] + 1) IN
  /\ last_exc' = [last_exc EXCEPT ![c] = e]
  /\ error' = [error EXCEPT ![c] = ErrorStr(ErrorPrefix(k), e)]
  /\ it' = [it EXCEPT ![c] = @ + 1]
  /\ IF it[c] + 1 < Attempts(repair)
     THEN /\ pc' = [pc EXCEPT ![c] = "sql_gen"]
          /\ ret' = ret
     ELSE /\ pc' = [pc EXCEPT ![c] = "raised"]
          /\ ret' = [ret EXCEPT ![c] = [how |-> "raise", val |-> NoValue,
                                        exc |-> AfterLoop(last_exc'[c])]]

\* Execute succeeds: result_data is the outcome.
ExecuteOk(c) ==
  /\ pc[c] = "execute"
  /\ MayRun(c)
  /\ \E late \in BOOLEAN :
       LET r == RunSql(c, late) IN
       /\ r.err = NoError
       /\ r.d <= MaxRows
       /\ db' = r.d
       /\ result_data' = [result_data EXCEPT ![c] = r.out]
  /\ pc' = [pc EXCEPT ![c] = "parse"]
  /\ hist' = [hist EXCEPT ![c].execs = @ + 1, ![c].executed = TextToExecute(c),
                          ![c].dbBefore = db]
  /\ UNCHANGED <<binder, svc, config, cache, it, sql_template, gen_text, error, last_exc, ret>>

\* Variant: a render error is not caught by the loop.
ExecuteFails_RenderEscapes(c) ==
  /\ pc[c] = "execute"
  /\ MayRun(c)
  /\ \E late \in BOOLEAN :
       LET r == RunSql(c, late) IN
       /\ r.err # NoError
       /\ r.d <= MaxRows
       /\ db' = r.d
       /\ IF r.err = "render"
          THEN /\ RaiseFromSqlGen(c, "render")
               /\ UNCHANGED <<it, error, last_exc>>
          ELSE CaptureAndContinue(c, r.err)
  /\ hist' = [hist EXCEPT ![c].execs = @ + 1, ![c].executed = TextToExecute(c),
                          ![c].dbBefore = db, ![c].failAtt = it[c] + 1,
                          ![c].failStage = "execute"]
  /\ UNCHANGED <<binder, svc, config, cache, sql_template, gen_text, result_data>>

\* Execute raises: a render error, an execution error, or the backend's own
\* error where the adapter wraps nothing.
ExecuteFails(c) ==
  /\ pc[c] = "execute"
  /\ MayRun(c)
  /\ \E late \in BOOLEAN :
       LET r == RunSql(c, late) IN
       /\ r.err # NoError
       /\ r.d <= MaxRows
       /\ db' = r.d
       /\ CaptureAndContinue(c, r.err)
  /\ hist' = [hist EXCEPT ![c].execs = @ + 1, ![c].executed = TextToExecute(c),
                          ![c].dbBefore = db, ![c].failAtt = it[c] + 1,
                          ![c].failStage = "execute"]
  /\ UNCHANGED <<binder, svc, config, cache, sql_template, gen_text, result_data>>

\* Variant: the materialized value is kept and the loop goes on.
MaterializeOk_NoReturn(c) ==
  /\ pc[c] = "parse"
  /\ MayRun(c)
  /\ ParseResult(shape, result_data[c]).ok
  /\ it' = [it EXCEPT ![c] = @ + 1]
  /\ pc' = [pc EXCEPT ![c] = IF it[c] + 1 < Attempts(repair)
                             THEN "sql_gen" ELSE "returned"]
  /\ ret' = [ret EXCEPT ![c] = [how |-> "return",
                                val |-> ParseResult(shape, result_data[c]).val,
                                exc |-> NoExc]]
  /\ UNCHANGED <<binder, svc, config, cache, db, sql_template, gen_text, error,
                 last_exc, result_data, hist>>

\* Materialize succeeds: return self._parse_result(result_data).
MaterializeOk(c) ==
  /\ pc[c] = "parse"
  /\ MayRun(c)
  /\ ParseResult(shape, result_data[c]).ok
  /\ pc' = [pc EXCEPT ![c] = "returned"]
  /\ ret' = [ret EXCEPT ![c] = [how |-> "return",
                                val |-> ParseResult(shape, result_data[c]).val,
                                exc |-> NoExc]]
  /\ UNCHANGED <<binder, svc, config, cache, db, it, sql_template, gen_text, error,
                 last_exc, result_data, hist>>

\* Materialize raises.
MaterializeFails(c) ==
  /\ pc[c] = "parse"
  /\ MayRun(c)
  /\ ~ParseResult(shape, result_data[c]).ok
  /\ CaptureAndContinue(c, "parse")
  /\ hist' = [hist EXCEPT ![c].failAtt = it[c] + 1, ![c].failStage = "parse"]
  /\ UNCHANGED <<binder, svc, config, cache, db, sql_template, gen_text, result_data>>

\* One step of call c.
Step(c) ==
  \/ CallStart(c)
  \/ SqlGenCheck(c)
  \/ GenerateSql(c)
  \/ GenerateFails(c)
  \/ CacheSetOpen(c)
  \/ CacheSetFails(c)
  \/ CacheSetWrite(c)
  \/ CacheGet(c)
  \/ ExecuteOk(c)
  \/ ExecuteFails(c)
  \/ MaterializeOk(c)
  \/ MaterializeFails(c)

\* One caller: every configuration, one call of the declared function.
Next == Step(1)

Spec == Init /\ [][Next]_vars

\* Concurrent callers of the same declared function (same template key),
\* list- or count-shaped, with a repair budget of at most ConcRepair.
ConcRepair == 1

InitConc ==
  /\ Init
  /\ repair.isint /\ repair.v \in 0 .. ConcRepair
  /\ shape \in {"list", "count"}

NextConc == \E c \in Calls : Step(c)

SpecConc == InitConc /\ [][NextConc]_vars

\* ------------------------------------------------- direct runs of a text

\* The texts a caller hands to Database.run_sql / run_sql_async directly.
RunTexts ==
  {"SEL", "INS", "INS_SEL", "INS_BAD", "SEL_INS", "SEL_SEL", "INS_INS",
   "UPD_UPD", "DDL_INS", "DDL", "LIT_BAD", "INS_TS", "BAD", "JINJA_ERR",
   EmptyText}

InitRun ==
  /\ Init
  /\ regen = FALSE
  /\ repair = [isint |-> TRUE, v |-> 0]
  /\ shape = "list"
  /\ cache = NoneText

\* The caller picks the text of its next direct run.
RunPick(c) ==
  /\ pc[c] \in {"idle", "ran"}
  /\ \E t \in RunTexts : sql_template' = [sql_template EXCEPT ![c] = t]
  /\ pc' = [pc EXCEPT ![c] = "run"]
  /\ UNCHANGED <<binder, svc, config, cache, db, it, gen_text, error, last_exc,
                 result_data, ret, hist>>

\* Database.run_sql / Database.run_sql_async on the picked text: the
\* outcome, or the exception the adapter raised.
RunCall(c) ==
  /\ pc[c] = "run"
  /\ \E late \in BOOLEAN :
       LET r == RunSql(c, late) IN
       /\ r.d <= MaxRows
       /\ db' = r.d
       /\ result_data' = [result_data EXCEPT ![c] = r.out]
       /\ last_exc' = [last_exc EXCEPT ![c] =
                         IF r.err = NoError THEN NoExc ELSE Exc(r.err, 1)]
       /\ hist' = [hist EXCEPT ![c].executed = TextToExecute(c),
                                ![c].dbBefore = db, ![c].log = r.log]
  /\ pc' = [pc EXCEPT ![c] = "ran"]
  /\ UNCHANGED <<binder, svc, config, cache, it, sql_template, gen_text, error, ret>>

NextRun == RunPick(1) \/ RunCall(1)

SpecRun == InitRun /\ [][NextRun]_vars

\* ------------------------------------------------------------------ pools

\* _execute_async builds its own Database and AsyncpgAdapter for the call
\* (get_db_with_adapter); run_sql_async opens that adapter's pool before its
\* first statement, and nothing in the call closes it.
PoolOpened(c) == is_async /\ hist[c].execs > 0

\* The number of pools opened for the one backend URL.
OpenPools == Cardinality({c \in Calls : PoolOpened(c)})

\* ------------------------------------------------------------- decoration

\* The values of the adapter_mode argument: not given, 'sync', 'async'.
AdapterModes == {"unset", "sync", "async"}

\* The declared return shapes; "missing" is a function without a return
\* annotation.
Shapes == {"list", "count", "scalar", "missing"}

InitDecorate ==
  /\ regen \in BOOLEAN
  /\ repair \in RepairValues
  /\ is_async \in BOOLEAN
  /\ shape \in Shapes
  /\ adapter_mode \in AdapterModes
  /\ cache \in SeedTexts \cup {NoneText}
  /\ db = 0
  /\ pc = [c \in Calls |-> IF c = 1 THEN "construct" ELSE "idle"]
  /\ it = [c \in Calls |-> 0]
  /\ sql_template = [c \in Calls |-> NoneText]
  /\ gen_text = [c \in Calls |-> NoneText]
  /\ error = [c \in Calls |-> NoErrorStr]
  /\ last_exc = [c \in Calls |-> NoExc]
  /\ result_data = [c \in Calls |-> NoOutcome]
  /\ ret = [c \in Calls |-> NoRet]
  /\ hist = [c \in Calls |-> NoHist]
  /\ BinderIdle
  /\ SvcIdle

\* SQLQueryDecorator(...): __init__ has no parameter adapter_mode, so a
\* call that passes one raises TypeError; otherwise the decorator exists.
Construct(c) ==
  /\ pc[c] = "construct"
  /\ IF adapter_mode # "unset"
     THEN /\ pc' = [pc EXCEPT ![c] = "raised"]
          /\ ret' = [ret EXCEPT ![c] = [how |-> "raise", val |-> NoValue,
                                        exc |-> Exc("type", 0)]]
     ELSE /\ pc' = [pc EXCEPT ![c] = "decorate"]
          /\ ret' = ret
  /\ UNCHANGED <<binder, svc, config, cache, db, it, sql_template, gen_text,
                 error, last_exc, result_data, hist>>

\* Variant: the return annotation is not looked at when decorating.
Decorate_NoCheck(c) ==
  /\ pc[c] = "decorate"
  /\ pc' = [pc EXCEPT ![c] = "idle"]
  /\ UNCHANGED <<binder, svc, config, cache, db, it, sql_template, gen_text,
                 error, last_exc, result_data, ret, hist>>

\* SQLQueryDecorator.__call__(func): FunctionSpec(func) raises ValueError
\* for a function without a return annotation; otherwise the wrapper is
\* built and can be called.
Decorate(c) ==
  /\ pc[c] = "decorate"
  /\ IF shape = "missing"
     THEN /\ pc' = [pc EXCEPT ![c] = "raised"]
          /\ ret' = [ret EXCEPT ![c] = [how |-> "raise", val |-> NoValue,
                                        exc |-> Exc("contract", 0)]]
     ELSE /\ pc' = [pc EXCEPT ![c] = "idle"]
          /\ ret' = ret
  /\ UNCHANGED <<binder, svc, config, cache, db, it, sql_template, gen_text,
                 error, last_exc, result_data, hist>>

\* build_wrapper(is_async): whether the wrapper is a coroutine function.
WrapperIsAsync == is_async

NextDecorate == Construct(1) \/ Decorate(1) \/ Step(1)

SpecDecorate == InitDecorate /\ [][NextDecorate]_vars

\* ------------------------------------------------- two declared functions

\* The declared functions of the end-to-end tests, get_users() -> List[User]
\* and create_user(user) -> int, with the templates the tests seed the cache
\* with.  shape and cache stand for the shape and the cache file of the
\* function being called.
Functions == {"get_users", "create_user"}
FnShape(f) == IF f = "get_users" THEN "list" ELSE "count"
FnSeed(f) == IF f = "get_users" THEN "SEL" ELSE "INS"

InitE2E ==
  /\ regen = FALSE
  /\ repair \in RepairValues
  /\ is_async \in BOOLEAN
  /\ \E f \in Functions : shape = FnShape(f) /\ cache = FnSeed(f)
  /\ db = 0
  /\ pc = [c \in Calls |-> "idle"]
  /\ it = [c \in Calls |-> 0]
  /\ sql_template = [c \in Calls |-> NoneText]
  /\ gen_text = [c \in Calls |-> NoneText]
  /\ error = [c \in Calls |-> NoErrorStr]
  /\ last_exc = [c \in Calls |-> NoExc]
  /\ result_data = [c \in Calls |-> NoOutcome]
  /\ ret = [c \in Calls |-> NoRet]
  /\ hist = [c \in Calls |-> NoHist]
  /\ adapter_mode = "unset"
  /\ BinderIdle
  /\ SvcIdle

\* The caller, back from one call, calls one of the two functions: a new
\* invocation of the wrapper with fresh locals.
NextCall(c) ==
  /\ pc[c] \in {"returned", "raised"}
  /\ \E f \in Functions : shape' = FnShape(f) /\ cache' = FnSeed(f)
  /\ pc' = [pc EXCEPT ![c] = "idle"]
  /\ it' = [it EXCEPT ![c] = 0]
  /\ sql_template' = [sql_template EXCEPT ![c] = NoneText]
  /\ error' = [error EXCEPT ![c] = NoErrorStr]
  /\ last_exc' = [last_exc EXCEPT ![c] = NoExc]
  /\ result_data' = [result_data EXCEPT ![c] = NoOutcome]
  /\ ret' = [ret EXCEPT ![c] = NoRet]
  /\ hist' = [hist EXCEPT ![c] =
                [NoHist EXCEPT !.created =
                   hist[c].created +
                     (IF pc[c] = "returned" /\ shape = "count" THEN 1 ELSE 0)]]
  /\ UNCHANGED <<binder, svc, regen, repair, is_async, adapter_mode, db,
                 gen_text>>

\* With the cache seeded and regen unset the calls never reach the
\* generator, and the seeded statements never fail: the steps below are the
\* ones a call takes.
NextE2E ==
  \/ NextCall(1)
  \/ CallStart(1)
  \/ SqlGenCheck(1)
  \/ CacheGet(1)
  \/ ExecuteOk(1)
  \/ MaterializeOk(1)

SpecE2E == InitE2E /\ [][NextE2E]_vars

\* ----------------------------------------------------------- binding a row

\* The column aliases of the rows: the nested aliases of the profile query
\* ("profile.bio", "profile.address.street", "profile.address.city"), a
\* plain one, and aliases that are at once the prefix of another.
RowKeys ==
  {<<"id">>, <<"profile">>, <<"profile", "bio">>, <<"profile", "address">>,
   <<"profile", "address", "street">>, <<"profile", "address", "city">>}

\* The values of a column: None, a text, and the falsy 0.
CellValues == {Null, Leaf("x"), Leaf("0")}

\* A mapping that is nested already, as the value of the key "meta".
NestedValue == Dict([k \in {<<"note">>} |-> Null])

WithMeta(d) ==
  [k \in DOMAIN d \cup {<<"meta">>} |->
     IF k = <<"meta">> THEN NestedValue ELSE d[k]]

\* The rows: every choice of columns and values, with or without "meta".
FlatRows ==
  LET R == UNION {[S -> CellValues] : S \in SUBSET RowKeys}
  IN R \cup {WithMeta(d) : d \in R}

InitUnflatten ==
  /\ regen = FALSE
  /\ repair = [isint |-> TRUE, v |-> 0]
  /\ is_async = FALSE
  /\ shape = "scalar"
  /\ cache = NoneText
  /\ db = 0
  /\ pc = [c \in Calls |-> "idle"]
  /\ it = [c \in Calls |-> 0]
  /\ sql_template = [c \in Calls |-> NoneText]
  /\ gen_text = [c \in Calls |-> NoneText]
  /\ error = [c \in Calls |-> NoErrorStr]
  /\ last_exc = [c \in Calls |-> NoExc]
  /\ result_data = [c \in Calls |-> NoOutcome]
  /\ ret = [c \in Calls |-> NoRet]
  /\ hist = [c \in Calls |-> NoHist]
  /\ adapter_mode = "unset"
  /\ flat_dict \in FlatRows
  /\ unflattened = <<>>
  /\ applied = 0
  /\ rows = <<>>
  /\ bound = NotBound
  /\ SvcIdle

loop == <<regen, repair, is_async, shape, adapter_mode, cache, db, pc, it,
          sql_template, gen_text, error, last_exc, result_data, ret, hist>>

\* unflattened_data = unflatten_dict(data)
UnflattenRow ==
  /\ applied = 0
  /\ unflattened' = Unflatten(flat_dict)
  /\ applied' = 1
  /\ UNCHANGED <<loop, svc, flat_dict, rows, bound>>

\* unflatten_dict applied to the mapping it returned.
UnflattenAgain ==
  /\ applied = 1
  /\ flat_dict' = unflattened
  /\ unflattened' = Unflatten(unflattened)
  /\ applied' = 2
  /\ UNCHANGED <<loop, svc, rows, bound>>

NextUnflatten == UnflattenRow \/ UnflattenAgain

SpecUnflatten == InitUnflatten /\ [][NextUnflatten]_vars

\* Longest row set given to the materializer.
MaxList == 2

\* The rows of a query with the columns id and name, each present or not.
BindRows ==
  UNION {[S -> {Null, Leaf("1"), Leaf("2"), Leaf("x")}] :
           S \in SUBSET {<<"id">>, <<"name">>}}

\* The row sets: the sequences of at most MaxList rows with an id.
RowSets ==
  UNION {[1 .. n -> {r \in BindRows : DOMAIN r = {} \/ <<"id">> \in DOMAIN r}] :
           n \in 0 .. MaxList}

InitBind ==
  /\ regen = FALSE
  /\ repair = [isint |-> TRUE, v |-> 0]
  /\ is_async = FALSE
  /\ shape = "scalar"
  /\ adapter_mode = "unset"
  /\ cache = NoneText
  /\ db = 0
  /\ pc = [c \in Calls |-> "idle"]
  /\ it = [c \in Calls |-> 0]
  /\ sql_template = [c \in Calls |-> NoneText]
  /\ gen_text = [c \in Calls |-> NoneText]
  /\ error = [c \in Calls |-> NoErrorStr]
  /\ last_exc = [c \in Calls |-> NoExc]
  /\ result_data = [c \in Calls |-> NoOutcome]
  /\ ret = [c \in Calls |-> NoRet]
  /\ hist = [c \in Calls |-> NoHist]
  /\ \/ flat_dict \in BindRows /\ rows = <<>>
     \/ flat_dict = <<>> /\ rows \in RowSets
  /\ unflattened = <<>>
  /\ applied = 0
  /\ bound = NotBound
  /\ SvcIdle

\* db.parse_query_to_pydantic(data, model_class) on the row, or on None.
BindRow ==
  /\ bound = NotBound /\ rows = <<>>
  /\ \E model_class \in ModelClasses, data \in {Null, Dict(flat_dict)} :
       bound' = [kind |-> "row", model_class |-> model_class, data |-> data,
                 res |-> ParseQueryToPydantic(data, model_class)]
  /\ UNCHANGED <<loop, svc, flat_dict, unflattened, applied, rows>>

\* _parse_result of a function that returns a struct or none.
BindFirst ==
  /\ bound = NotBound /\ flat_dict = <<>>
  /\ \E model_class \in {"T", "NoneType"} :
       bound' = [kind |-> "first", model_class |-> model_class,
                 data |-> First(rows), res |-> ParseFirst(rows, model_class)]
  /\ UNCHANGED <<loop, svc, flat_dict, unflattened, applied, rows>>

\* _parse_result of a function that returns a list.
BindList ==
  /\ bound = NotBound /\ flat_dict = <<>>
  /\ \E model_class \in ModelClasses :
       bound' = [kind |-> "list", model_class |-> model_class,
                 data |-> Null, res |-> ParseList(rows, model_class)]
  /\ UNCHANGED <<loop, svc, flat_dict, unflattened, applied, rows>>

NextBind == BindRow \/ BindFirst \/ BindList

SpecBind == InitBind /\ [][NextBind]_vars

\* ------------------------------------------------- operations of an adapter

\* Cap of the operations started on one adapter, and of its closes.
MaxOps == 3

\* How a run ends: it returns, the rendering fails, a statement fails.
RunEnds == {"ok", "render", "exec"}

InitAdapter ==
  /\ regen = FALSE
  /\ repair = [isint |-> TRUE, v |-> 0]
  /\ is_async \in BOOLEAN
  /\ shape = "list"
  /\ adapter_mode = "unset"
  /\ cache = NoneText
  /\ db = 0
  /\ pc = [c \in Calls |-> "idle"]
  /\ it = [c \in Calls |-> 0]
  /\ sql_template = [c \in Calls |-> NoneText]
  /\ gen_text = [c \in Calls |-> NoneText]
  /\ error = [c \in Calls |-> NoErrorStr]
  /\ last_exc = [c \in Calls |-> NoExc]
  /\ result_data = [c \in Calls |-> NoOutcome]
  /\ ret = [c \in Calls |-> NoRet]
  /\ hist = [c \in Calls |-> NoHist]
  /\ BinderIdle
  /\ SvcIdle

\* The operations of an adapter that use its pool: run_sql /
\* run_sql_async, init_pool_async, init_schema / init_schema_async.
AdapterOps == {"run", "init", "schema"}

\* The variables the adapter's operations leave alone.
others == <<binder, config, cache, db, it, sql_template, gen_text, error,
            last_exc, result_data, ret, hist, cache_dir, latest, DATABASES,
            engines, got, decl, tmpl>>

\* AsyncpgAdapter.init_pool_async, the test 'self.pool is None'.
PoolIsNone(a) == ~a.open

\* AsyncpgAdapter.init_pool_async, the assignment that follows the await of
\* asyncpg.create_pool: self.pool is the pool just created, whatever it
\* was before.
InitPoolAsync(a) == [a EXCEPT !.open = TRUE, !.created = @ + 1]

\* 'with self.engine.connect() as conn' / 'async with self.pool.acquire()
\* as conn', entering: a connection is taken; the engine's pool hands out
\* one it keeps, when it keeps one.
AcquireConnection(a) ==
  [a EXCEPT !.held = @ + 1,
            !.idle = IF ~is_async /\ @ > 0 THEN @ - 1 ELSE @,
            !.last = "acquire", !.raised = FALSE]

\* Variant: the connection is given back only when the body returned.
ReleaseConnection_LeaksOnError(a, e) ==
  [a EXCEPT !.held = IF e = "ok" THEN @ - 1 ELSE @,
            !.idle = IF ~is_async /\ e = "ok" THEN @ + 1 ELSE @,
            !.last = "run", !.raised = (e # "ok")]

\* Leaving the with block, by return (e = "ok") or by an exception of a
\* statement: the connection goes back to its pool.
ReleaseConnection(a, e) ==
  [a EXCEPT !.held = @ - 1,
            !.idle = IF ~is_async THEN @ + 1 ELSE @,
            !.last = "run", !.raised = (e # "ok")]

\* What an operation does once the pool is there.  init_pool_async
\* returns.  A run renders first, which raises without a connection, and
\* then takes its connection; a schema initialisation takes its connection.
Enter(c, op, a) ==
  \/ /\ op = "init"
     /\ adapter' = [a EXCEPT !.last = "init", !.raised = FALSE]
     /\ pc' = [pc EXCEPT ![c] = "idle"]
  \/ /\ op = "run"
     /\ adapter' = [a EXCEPT !.last = "run", !.raised = TRUE]
     /\ pc' = [pc EXCEPT ![c] = "idle"]
  \/ /\ op \in {"run", "schema"}
     /\ adapter' = AcquireConnection(a)
     /\ pc' = [pc EXCEPT ![c] = "acquired"]

\* An operation starts.  The synchronous adapter has its engine since
\* construction.  The asynchronous one awaits init_pool_async first, which
\* suspends in asyncpg.create_pool when it found no pool.
AdapterRun(c) ==
  /\ pc[c] = "idle"
  /\ adapter.runs < MaxOps
  /\ \E op \in AdapterOps :
       /\ is_async \/ op # "init"
       /\ LET a == [adapter EXCEPT !.runs = @ + 1] IN
          IF is_async /\ PoolIsNone(adapter)
          THEN /\ pc' = [pc EXCEPT ![c] = "create_" \o op]
               /\ adapter' = [a EXCEPT !.last = "create", !.raised = FALSE]
          ELSE Enter(c, op, a)
  /\ UNCHANGED others

\* asyncpg.create_pool returns to the suspended init_pool_async, which
\* assigns self.pool; the operation goes on.
AdapterInitPool(c) ==
  /\ \E op \in AdapterOps :
       /\ pc[c] = "create_" \o op
       /\ Enter(c, op, InitPoolAsync(adapter))
  /\ UNCHANGED others

\* The statements of the body have run, or one of them raised.
AdapterRelease(c) ==
  /\ pc[c] = "acquired"
  /\ \E e \in RunEnds \ {"render"} :
       adapter' = ReleaseConnection(adapter, e)
  /\ pc' = [pc EXCEPT ![c] = "idle"]
  /\ UNCHANGED others

\* Variant: close_async closes the pool without looking whether there is
\* one; closing None raises.
CloseAdapter_NoPoolCheck(a) ==
  IF is_async
  THEN [a EXCEPT !.open = FALSE, !.released = @ + 1, !.created = 0,
                 !.raised = ~a.open]
  ELSE [a EXCEPT !.released = @ + a.idle, !.idle = 0, !.raised = FALSE]

\* AsyncpgAdapter.close_async: an open pool is closed and forgotten;
\* without a pool nothing happens.
\* SQLAlchemyAdapter.close: engine.dispose() closes the connections the
\* pool keeps and leaves an empty pool; an exception of it is logged and
\* not raised.
CloseAdapter(a) ==
  IF is_async
  THEN [a EXCEPT !.open = FALSE,
                 !.released = IF a.open THEN @ + 1 ELSE @,
                 !.created = 0,
                 !.raised = FALSE]
  ELSE [a EXCEPT !.released = @ + a.idle, !.idle = 0, !.raised = FALSE]

\* close / close_async, called while no operation holds a connection.
AdapterClose ==
  /\ adapter.closes < MaxOps
  /\ adapter.held = 0
  /\ adapter' = [CloseAdapter(adapter) EXCEPT !.closes = @ + 1,
                                              !.last = "close"]
  /\ UNCHANGED <<others, pc>>

NextAdapter ==
  \/ \E c \in Calls : AdapterRun(c) \/ AdapterInitPool(c) \/ AdapterRelease(c)
  \/ AdapterClose

SpecAdapter == InitAdapter /\ [][NextAdapter]_vars

\* ------------------------------------------------ the registry of get_db

InitRegistry == InitAdapter /\ ~is_async

\* The position of a caller inside get_db(u).
InGetDb(stage, u) == stage \o " " \o u

\* get_db, 'if db_url not in DATABASES': the test.  Threads that run the
\* synchronous wrapper can be switched between the test, the construction
\* and the lookup of the return statement.
GetDbCheck(c) ==
  /\ pc[c] = "idle"
  /\ \E u \in Urls :
       pc' = [pc EXCEPT ![c] = IF DATABASES[u] = 0 THEN InGetDb("construct", u)
                                ELSE InGetDb("return", u)]
  /\ UNCHANGED <<binder, config, cache, db, it, sql_template, gen_text, error,
                 last_exc, result_data, ret, hist, svc>>

\* get_db, 'DATABASES[db_url] = Database(db_url)': a Database with its
\* engine is constructed and registered, replacing what is registered.
GetDbStore(c) ==
  /\ \E u \in Urls :
       /\ pc[c] = InGetDb("construct", u)
       /\ DATABASES' = [DATABASES EXCEPT ![u] = c]
       /\ engines' = [engines EXCEPT ![u] = @ \cup {c}]
       /\ pc' = [pc EXCEPT ![c] = InGetDb("return", u)]
  /\ UNCHANGED <<binder, config, cache, db, it, sql_template, gen_text, error,
                 last_exc, result_data, ret, hist, adapter, cache_dir, latest,
                 got, decl, tmpl>>

\* get_db, 'return DATABASES[db_url]'.
GetDbReturn(c) ==
  /\ \E u \in Urls :
       /\ pc[c] = InGetDb("return", u)
       /\ got' = [got EXCEPT ![c] = [url |-> u, inst |-> DATABASES[u]]]
  /\ pc' = [pc EXCEPT ![c] = "idle"]
  /\ UNCHANGED <<binder, config, cache, db, it, sql_template, gen_text, error,
                 last_exc, result_data, ret, hist, adapter, cache_dir, latest,
                 DATABASES, engines, decl, tmpl>>

NextRegistry ==
  \E c \in Calls : GetDbCheck(c) \/ GetDbStore(c) \/ GetDbReturn(c)

SpecRegistry == InitRegistry /\ [][NextRegistry]_vars

\* ------------------------------------- two functions and one directory

\* The functions that are declared: their names, the name override given
\* to the decorator (None: no override), return shape and backend.
Decls ==
  [func_name : {"get_users", "get_bikes"},
   name : {NoneText, "get_users.sql"},
   shape : {"list", "count"},
   url : Urls,
   regen : BOOLEAN]

\* The texts generate_sql answers in these runs.
DeclTexts == {<<"S">>, <<"S", "LF", "S">>, <<"S", "CR", "LF", "S">>}

\* template_name = self.name or f"{func.__name__}.sql"
TemplateName(d) ==
  IF d.name \notin {NoneText, ""} THEN d.name ELSE d.func_name \o ".sql"

\* Variant: the file name also carries the function's return shape.
CacheKeyOf_WithShape(d) == d.shape \o "_" \o TemplateName(d)

\* The cache key of a declared function: the template name, which
\* _get_cache_path joins to the cache directory.
CacheKeyOf(d) == TemplateName(d)

\* The files of the directory, one for every key in use.
DirKeys == {CacheKeyOf(d) : d \in Decls} \cup CacheKeys

\* Both decorators are built with the same cache_dir.
InitDecls ==
  /\ regen = FALSE
  /\ repair = [isint |-> TRUE, v |-> 0]
  /\ is_async = FALSE
  /\ shape = "list"
  /\ adapter_mode = "unset"
  /\ cache = NoneText
  /\ db = 0
  /\ pc = [c \in Calls |-> "idle"]
  /\ it = [c \in Calls |-> 0]
  /\ sql_template = [c \in Calls |-> NoneText]
  /\ gen_text = [c \in Calls |-> NoneText]
  /\ error = [c \in Calls |-> NoErrorStr]
  /\ last_exc = [c \in Calls |-> NoExc]
  /\ result_data = [c \in Calls |-> NoOutcome]
  /\ ret = [c \in Calls |-> NoRet]
  /\ hist = [c \in Calls |-> NoHist]
  /\ BinderIdle
  /\ adapter = NewAdapter
  /\ cache_dir = [k \in DirKeys |-> NoFile]
  /\ latest = [k \in DirKeys |-> NoFile]
  /\ DATABASES = NoDatabases
  /\ engines = [u \in Urls |-> {}]
  /\ got = [c \in Calls |-> NotGot]
  /\ decl \in [Calls -> Decls]
  /\ tmpl = [c \in Calls |-> NoTmpl]

\* sql_gen of function c on its first attempt: generate and cache.set when
\* regen is set or the key has no file, cache.get otherwise.
SqlGenOf(c) ==
  /\ pc[c] = "idle"
  /\ LET k == CacheKeyOf(decl[c]) IN
     IF decl[c].regen \/ ~TemplateExists(cache_dir, k)
     THEN \E t \in DeclTexts :
            /\ cache_dir' = TemplateSet(cache_dir, k, t)
            /\ latest' = [latest EXCEPT ![k] = File(t)]
            /\ tmpl' = [tmpl EXCEPT ![c] = [how |-> "generated",
                                            exists |-> TRUE, text |-> t]]
     ELSE /\ tmpl' = [tmpl EXCEPT ![c] =
                        [how |-> "cached",
                         exists |-> TemplateGet(cache_dir, k).exists,
                         text |-> TemplateGet(cache_dir, k).text]]
          /\ UNCHANGED <<cache_dir, latest>>
  /\ pc' = [pc EXCEPT ![c] = "execute"]
  /\ UNCHANGED <<binder, config, cache, db, it, sql_template, gen_text, error,
                 last_exc, result_data, ret, hist, adapter, DATABASES,
                 engines, got, decl>>

\* The function runs the text it obtained and returns.
RunOf(c) ==
  /\ pc[c] = "execute"
  /\ pc' = [pc EXCEPT ![c] = "idle"]
  /\ UNCHANGED <<binder, config, cache, db, it, sql_template, gen_text, error,
                 last_exc, result_data, ret, hist, svc>>

NextDecls == \E c \in Calls : SqlGenOf(c) \/ RunOf(c)

SpecDecls == InitDecls /\ [][NextDecls]_vars

\* ---------------------------------------------- operations of the cache

\* The texts given to set: one line, two lines separated by "\n", by
\* "\r\n" and by "\r".
CacheTexts ==
  {<<"S">>, <<"S", "LF", "S">>, <<"S", "CR", "LF", "S">>, <<"S", "CR", "S">>}

InitCache == InitAdapter

\* cache.set(key, template); latest remembers the text that was given.
CacheDoSet ==
  /\ \E k \in CacheKeys, t \in CacheTexts :
       /\ cache_dir' = TemplateSet(cache_dir, k, t)
       /\ latest' = [latest EXCEPT ![k] = File(t)]
  /\ UNCHANGED <<binder, loop, adapter, DATABASES, engines, got, decl, tmpl>>

\* cache.clear(key) and cache.clear().
CacheDoClear ==
  /\ \E k \in CacheKeys \cup {NoneText} :
       /\ cache_dir' = TemplateClear(cache_dir, k)
       /\ latest' = [j \in CacheKeys |->
                      IF k = NoneText \/ j = k THEN NoFile ELSE latest[j]]
  /\ UNCHANGED <<binder, loop, adapter, DATABASES, engines, got, decl, tmpl>>

NextCache == CacheDoSet \/ CacheDoClear

SpecCache == InitCache /\ [][NextCache]_vars

\* ------------------------------------------------------------------ claims

\* The exception kinds the loop captures from Execute and Materialize.
LoopKinds == {"render", "exec", "raw", "parse"}

\* C1: with a repair budget n >= 0, one call makes at most n+1 passes through
\* Generate and at most n+1 executions, and exactly n+1 of each when it ends
\* raising an execution or materialization error; with n = 0 a call that
\* ends made exactly one pass and one execution, and a failure of its only
\* attempt is raised at once.  The configuration covers the blocking and the
\* asynchronous loop.
C1_AttemptBudget ==
  \A c \in Calls :
    (repair.isint /\ repair.v >= 0) =>
      /\ hist[c].passes <= repair.v + 1
      /\ hist[c].gens <= repair.v + 1
      /\ hist[c].execs <= repair.v + 1
      /\ (pc[c] = "raised" /\ ret[c].exc.kind \in LoopKinds) =>
            (hist[c].passes = repair.v + 1 /\ hist[c].execs = repair.v + 1)
      /\ (repair.v = 0 /\ hist[c].failAtt # 0) =>
            (pc[c] = "raised" /\ hist[c].passes = 1 /\ hist[c].execs = 1)
      /\ (repair.v = 0 /\ pc[c] = "returned") =>
            (hist[c].passes = 1 /\ hist[c].execs = 1)

\* C1 witness: an asynchronous call with budget 2 whose three attempts all
\* failed.
C1_Witness ==
  /\ is_async /\ repair.isint /\ repair.v = 2
  /\ pc[1] = "raised" /\ ret[1].exc.kind \in LoopKinds
  /\ hist[1].execs = 3 /\ hist[1].passes = 3

\* C2: once an attempt's Execute and Materialize both succeeded, the call
\* has returned that attempt's materialized value, and no pass through
\* Generate, no generator call, no execution and no cache write follows.
C2_ReturnIsFinal ==
  /\ [](\A c \in Calls :
          ret[c].how = "return" =>
            /\ pc[c] = "returned"
            /\ ret[c].val = ParseResult(shape, result_data[c]).val
            /\ hist[c].execs = it[c] + 1)
  /\ [][\A c \in Calls :
          ret[c].how = "return" =>
            (hist'[c] = hist[c] /\ ret'[c] = ret[c] /\ cache' = cache /\ db' = db)]_vars

\* C2 witness: budget 2, two failed attempts, the third one returned.
C2_Witness ==
  /\ repair.isint /\ repair.v = 2
  /\ pc[1] = "returned" /\ it[1] = 2
  /\ hist[1].execs = 3 /\ hist[1].gens <= 3 /\ hist[1].failAtt = 2

\* C3: a pass through sql_gen calls the generator if and only if the regen
\* flag is set, or the cache has no entry, or an error is carried; the
\* generator is called nowhere else; a regeneration leaves the new text in
\* the cache and hands it on; otherwise the text in the cache at that moment
\* is handed on, with the cache unchanged and no generator call.
C3_GenerateRule ==
  [][\A c \in Calls :
       /\ (pc[c] = "sql_gen" /\ pc'[c] # "sql_gen") =>
             /\ pc'[c] \in {"generate", "cache_get"}
             /\ (pc'[c] = "generate") <=>
                   (regen \/ cache = NoneText \/ error[c] # NoErrorStr)
       /\ (hist'[c].gens # hist[c].gens) => pc[c] = "generate"
       /\ (pc[c] = "generate" /\ pc'[c] # "generate") =>
             hist'[c].gens = hist[c].gens + 1
       /\ (pc[c] = "cache_write" /\ pc'[c] = "execute") =>
             (cache' = gen_text[c] /\ sql_template'[c] = gen_text[c])
       /\ (pc[c] = "cache_get" /\ pc'[c] = "execute") =>
             /\ sql_template'[c] = cache
             /\ cache' = cache
             /\ hist'[c].gens = hist[c].gens]_vars

\* C3 witness: a call that took the cached text while another call had
\* replaced the pre-seeded one.
C3_Witness ==
  \E c \in Calls :
    /\ pc[c] = "execute" /\ ~hist[c].regenerated /\ hist[c].gens = 0
    /\ sql_template[c] = "INS" /\ cache = "INS"

\* C4: when all attempts failed, the exception raised is the one captured in
\* the final attempt: the execution error when the final Execute failed, the
\* materialization error when the final Execute succeeded and Materialize
\* failed.
C4_LastErrorRaised ==
  \A c \in Calls :
    (pc[c] = "raised" /\ ret[c].exc.kind \in LoopKinds) =>
      /\ ret[c].how = "raise"
      /\ ret[c].exc = last_exc[c]
      /\ ret[c].exc.att = Attempts(repair)
      /\ ret[c].exc.att = hist[c].failAtt
      /\ (ret[c].exc.kind = "parse") <=> (hist[c].failStage = "parse")

\* C4 witness: budget 1, the first attempt failed in Execute and the final
\* one in Materialize.
C4_Witness ==
  /\ repair.isint /\ repair.v = 1
  /\ pc[1] = "raised" /\ ret[1].exc = Exc("parse", 2)
  /\ hist[1].execs = 2

\* C5: a render, execution or materialization error captured in an attempt
\* that is not the last one never reaches the caller; the call goes on to a
\* further attempt, which regenerates.
C5_ErrorsRecovered ==
  \A c \in Calls :
    /\ (ret[c].how = "raise" /\ ret[c].exc.kind \in LoopKinds) =>
          ret[c].exc.att = Attempts(repair)
    /\ (hist[c].failAtt # 0 /\ hist[c].failAtt < Attempts(repair)) =>
          /\ it[c] >= hist[c].failAtt
          /\ error[c] # NoErrorStr
          /\ (pc[c] = "raised") =>
                (ret[c].exc.kind \notin LoopKinds \/ ret[c].exc.att = Attempts(repair))
          /\ (pc[c] \in {"execute", "parse", "returned"}) => hist[c].regenerated

\* C5 witness: a render error in the first attempt, and the second attempt
\* about to execute a regenerated text.
C5_Witness ==
  /\ last_exc[1] = Exc("render", 1)
  /\ pc[1] = "execute" /\ it[1] = 1 /\ hist[1].regenerated

\* C6: a failure of the generator, or of the cache write after it, is
\* retried while attempts remain: it reaches the caller only from the last
\* attempt of the budget.
C6_GenerationRetried ==
  \A c \in Calls :
    (ret[c].how = "raise" /\ ret[c].exc.kind \in {"gen", "cache"}) =>
      ret[c].exc.att = Attempts(repair)

\* C7: the text handed to Execute is the one text sql_gen produced or read
\* in the same attempt, and after a regeneration it is the text this call
\* wrote to the cache, whatever other calls do to the cache meanwhile.
C7_ExecutesObtainedText ==
  \A c \in Calls :
    /\ (pc[c] \in {"parse", "returned"}) =>
          (hist[c].executed = hist[c].obtained /\ hist[c].execs = it[c] + 1)
    /\ (hist[c].failStage = "execute" /\ hist[c].failAtt = it[c]
        /\ pc[c] \in {"sql_gen", "generate", "cache_open", "cache_write",
                      "cache_get", "raised"}
        /\ ret[c].exc.kind \in LoopKinds \cup {"none"}) =>
          hist[c].executed = hist[c].obtained
    /\ (pc[c] = "execute" /\ hist[c].regenerated) =>
          (sql_template[c] = gen_text[c] /\ hist[c].obtained = gen_text[c])

\* C7 witness: a call executed the text it regenerated while the cache
\* already held another call's text.
C7_Witness ==
  \E c \in Calls :
    /\ pc[c] = "parse" /\ hist[c].regenerated
    /\ hist[c].executed = "INS_SEL" /\ cache = "INS"

\* C8: every text a call obtains from the cache is a complete text, one
\* that was pre-seeded or written by some Generate: never absent, never the
\* empty or partial content of a file being written.
C8_ReadsCompleteText ==
  \A c \in Calls :
    (pc[c] = "execute" /\ ~hist[c].regenerated) =>
      sql_template[c] \in SeedTexts \cup GenTexts

\* C9: after a failed attempt the backend data on which the next attempt
\* runs equals the data before the failed attempt.
C9_FailedAttemptLeavesData ==
  (pc[1] = "execute" /\ it[1] >= 1) => db = hist[1].dbBefore

\* The index of the last row-returning statement of a body, 0 without one.
LastReturning(stmts) ==
  LET S == {i \in 1 .. Len(stmts) : ReturnsRows(stmts[i])}
  IN IF S = {} THEN 0 ELSE CHOOSE i \in S : \A j \in S : j <= i

Affected(s, d) ==
  CASE s \in {"INSERT", "INSERT_TS"} -> 1
    [] s = "UPDATE"                  -> d
    [] OTHER                         -> 0

\* The affected-row counts of the statements from number i on, added up.
RECURSIVE AffectedSum(_, _, _)
AffectedSum(stmts, i, d) ==
  IF i > Len(stmts) THEN 0
  ELSE Affected(stmts[i], d) + AffectedSum(stmts, i + 1, d + StmtWrites(stmts[i]))

\* C11: a successful run of a body in which no statement returns rows
\* returns the sum of the affected-row counts of all its statements, in
\* either adapter; a body without a statement returns 0.
C11_RowCountSummed ==
  (/\ pc[1] = "ran" /\ last_exc[1] = NoExc
   /\ LastReturning(Stmts(hist[1].executed)) = 0) =>
     result_data[1] =
       IntOutcome(AffectedSum(Stmts(hist[1].executed), 1, hist[1].dbBefore))

\* The statements of a body as the backend should receive them: each one
\* once, in textual order, with the bound parameters.
SentInOrder(stmts) == [i \in 1 .. Len(stmts) |-> Sent(i, stmts[i], TRUE)]

\* C12: every statement of the rendered body is handed to the backend
\* exactly once, in textual order, each with the same bound parameters, in
\* either adapter; a run that raised did so up to the raising statement.
C12_EachStatementOnce ==
  (pc[1] = "ran" /\ Renders(hist[1].executed)) =>
    LET want == SentInOrder(Stmts(hist[1].executed))
        log == hist[1].log
    IN /\ Len(log) <= Len(want)
       /\ log = SubSeq(want, 1, Len(log))
       /\ last_exc[1] = NoExc => Len(log) = Len(want)

\* The statements of a log, in the order they were handed over.
LogStmts(log) == [i \in 1 .. Len(log) |-> log[i].s]

\* C13: on every rendered body the two adapters are observably equivalent:
\* the adapter that ran and the other one, given the same body and data,
\* execute the same statements in the same order, both fail or both
\* succeed, take the rows from the same statement (or both from none) and
\* return the same row count when no statement returns rows.
C13_AdaptersEquivalent ==
  (pc[1] = "ran" /\ Renders(hist[1].executed)) =>
    LET t == hist[1].executed
        d == hist[1].dbBefore
        o == IF is_async THEN SyncRunSql(t, d, FALSE) ELSE AsyncRunSql(t, d)
    IN /\ (last_exc[1] = NoExc) <=> (o.err = NoError)
       /\ LogStmts(hist[1].log) = LogStmts(o.log)
       /\ result_data[1].kind = o.out.kind
       /\ result_data[1].src = o.out.src
       /\ result_data[1].kind = "int" => result_data[1].n = o.out.n

\* Whether the message of an adapter's exception holds the rendered
\* statement text: the RuntimeError both adapters build around a backend
\* error ends with 'Rendered SQL: {query}'; the render error (ValueError)
\* and a backend exception that was not wrapped do not.
CarriesRenderedSql(k) == k = "exec"

\* C14: a backend error during a statement makes the run fail, in either
\* adapter and on every path, with an execution error whose message holds
\* the rendered statement text.
C14_ExecutionErrorCarriesSql ==
  pc[1] = "ran" =>
    /\ (\E i \in 1 .. Len(hist[1].log) : StmtFails(hist[1].log[i].s)) =>
         last_exc[1] # NoExc
    /\ last_exc[1].kind \notin {"none", "render"} =>
         CarriesRenderedSql(last_exc[1].kind)

\* C15: every render, execution or materialization error that reaches the
\* caller after the attempts ran out is the captured exception unchanged,
\* and its message holds the rendered statement text of the failing attempt.
C15_SurfacedErrorCarriesSql ==
  \A c \in Calls :
    (pc[c] = "raised" /\ ret[c].exc.kind \in LoopKinds) =>
      /\ ret[c].exc = last_exc[c]
      /\ CarriesRenderedSql(ret[c].exc.kind)

\* C16: every value a call returns is an instance of the declared return
\* shape, whether the statement answered rows or a row count: a list for the
\* list shape, a struct or none for the scalar shape, an integer for the
\* count shape.
C16_ReturnFitsShape ==
  \A c \in Calls :
    ret[c].how = "return" =>
      /\ shape = "list" => ret[c].val.kind = "list"
      /\ shape = "scalar" => ret[c].val.kind \in {"obj", "null"}
      /\ shape = "count" => ret[c].val.kind = "int"

\* The first value of the first row of a row set.  The rows of the table
\* carry their number in the first column, so the first row's is 1.
FirstCell(out) == 1

\* C17: a count-shaped function whose statement answered a non-empty row
\* set returns the first value of the first row as an integer.
C17_CountFromFirstCell ==
  \A c \in Calls :
    (/\ ret[c].how = "return" /\ shape = "count"
     /\ result_data[c].kind = "rows" /\ result_data[c].n > 0) =>
       ret[c].val = [kind |-> "int", n |-> FirstCell(result_data[c]), src |-> 0]

\* C18: on an initially empty users table every call of get_users and
\* create_user returns: get_users the list of the select's rows, one row per
\* create_user call that returned before it (none at first), create_user
\* the backend's row count 1 as it is; no step of a call fails.
C18_EndToEnd ==
  /\ pc[1] # "raised"
  /\ pc[1] = "sql_gen" => ~NeedsGenerate(1)
  /\ pc[1] = "execute" => \A late \in BOOLEAN : RunSql(1, late).err = NoError
  /\ pc[1] = "parse" => ParseResult(shape, result_data[1]).ok
  /\ (pc[1] = "returned" /\ shape = "list") =>
       ret[1] = [how |-> "return", exc |-> NoExc,
                 val |-> [kind |-> "list", n |-> hist[1].created, src |-> 1]]
  /\ (pc[1] = "returned" /\ shape = "count") =>
       ret[1] = [how |-> "return", exc |-> NoExc,
                 val |-> [kind |-> "int", n |-> 1, src |-> 0]]

\* C18 witness: get_users returned the two users that two calls of
\* create_user inserted, on the asynchronous adapter.
C18_Witness ==
  /\ is_async /\ pc[1] = "returned" /\ shape = "list"
  /\ hist[1].created = 2 /\ ret[1].val = [kind |-> "list", n |-> 2, src |-> 1]

\* Whether p is a proper prefix of the key k.
IsPrefix(p, k) == Len(p) < Len(k) /\ SubSeq(k, 1, Len(p)) = p

\* The value a nested mapping holds at a path; None below a None.
RECURSIVE At(_, _)
At(d, p) ==
  IF <<p[1]>> \notin DOMAIN d THEN Leaf("absent")
  ELSE IF Len(p) = 1 THEN d[<<p[1]>>]
  ELSE IF d[<<p[1]>>].t = "dict" THEN At(d[<<p[1]>>].m, Tail(p))
  ELSE IF d[<<p[1]>>] = Null THEN Null
  ELSE Leaf("absent")

\* No key of the mapping is the prefix of another one.
CollisionFree(d) == \A k1, k2 \in DOMAIN d : ~IsPrefix(k1, k2)

C20_UnflattenIdempotent ==
  /\ (applied = 1 /\ \A k \in DOMAIN flat_dict : ~HasSplitter(k)) =>
       unflattened = flat_dict
  /\ applied = 2 => unflattened = flat_dict

\* C20 witness: the nested result of a row with profile columns, one group
\* collapsed, given to unflatten_dict again and returned as it was.
C20_Witness ==
  /\ applied = 2
  /\ flat_dict =
       [k \in {<<"id">>, <<"profile">>} |->
          IF k = <<"id">> THEN Null
          ELSE Dict([j \in {<<"bio">>, <<"address">>} |->
                       IF j = <<"bio">> THEN Leaf("x") ELSE Null])]
  /\ unflattened = flat_dict

\* C21: binding a row that is absent or empty gives null and does not
\* raise, whatever the target type; so does the materialization of an empty
\* row set for a function that returns a struct or none.
C21_EmptyRowBindsNull ==
  /\ (bound.kind = "row" /\ (bound.data = Null \/ DOMAIN bound.data.m = {})) =>
       bound.res = BindOk(Null)
  /\ (bound.kind = "first" /\ (rows = <<>> \/ DOMAIN rows[1] = {})) =>
       bound.res = BindOk(Null)

\* C21 witness: None was bound to the struct type, and gave null.
C21_Witness ==
  /\ bound.kind = "row" /\ bound.model_class = "T" /\ bound.data = Null
  /\ bound.res = BindOk(Null)

\* C22: the list materialization gives one value per row of the row set, in
\* the order of the rows: the value at position i is the bind of row i, and
\* for the struct T it holds the id and the name of row i.
C22_ListKeepsOrder ==
  (bound.kind = "list" /\ bound.res.ok) =>
    /\ Len(bound.res.val) = Len(rows)
    /\ \A i \in 1 .. Len(rows) :
         /\ bound.res.val[i] =
              ParseQueryToPydantic(Dict(rows[i]), bound.model_class).val
         /\ (bound.model_class = "T" /\ DOMAIN rows[i] # {}) =>
              bound.res.val[i] = Dict(rows[i])

\* The row with the given id and the name 'x'.
RowOf(id) == [k \in {<<"id">>, <<"name">>} |-> IF k = <<"id">> THEN Leaf(id) ELSE Leaf("x")]

\* C22 witness: the rows with id 2 and id 1, in this order, gave T(id=2)
\* and T(id=1), in this order.
C22_Witness ==
  /\ bound.kind = "list" /\ bound.model_class = "T"
  /\ rows = <<RowOf("2"), RowOf("1")>>
  /\ bound.res = BindOk(<<Dict(RowOf("2")), Dict(RowOf("1"))>>)

\* C23: a function without a return annotation fails when it is decorated,
\* with the contract error, before any pass through Generate, any cache
\* access and any execution for it, and no attempt follows.
C23_MissingAnnotationFailsAtDecoration ==
  (shape = "missing" /\ adapter_mode = "unset") =>
    /\ pc[1] \in {"construct", "decorate", "raised"}
    /\ pc[1] = "raised" => ret[1] = [how |-> "raise", val |-> NoValue,
                                     exc |-> Exc("contract", 0)]
    /\ hist[1] = NoHist
    /\ it[1] = 0 /\ sql_template[1] = NoneText /\ db = 0

\* C23 witness: the decoration raised the contract error, with a repair
\* budget of 2 and nothing attempted.
C23_Witness ==
  /\ shape = "missing" /\ repair = [isint |-> TRUE, v |-> 2]
  /\ pc[1] = "raised" /\ ret[1].exc = Exc("contract", 0)
  /\ hist[1].passes = 0

\* C27: the wrapper follows adapter_mode: a decorator built with
\* adapter_mode 'async' gives a coroutine wrapper and one built with 'sync'
\* a blocking wrapper, whatever the function's own declaration.
C27_WrapperFollowsAdapterMode ==
  (adapter_mode # "unset" /\ pc[1] # "construct") =>
    /\ ~(pc[1] = "raised" /\ ret[1].exc.kind = "type")
    /\ WrapperIsAsync <=> adapter_mode = "async"

\* C24: for any number of successive or concurrent calls of asynchronous
\* functions against one backend, at most one pool is ever open for it.
C24_OnePoolPerBackend == OpenPools <= 1

\* C25: a close that follows a close raises nothing, releases nothing
\* further and leaves the adapter as the first close left it (only the
\* count of closes moves on), in the synchronous and in the asynchronous
\* adapter and whatever ran before the first close.
C25_CloseIdempotent ==
  [][(adapter.last = "close" /\ adapter'.closes = adapter.closes + 1) =>
       /\ ~adapter'.raised
       /\ adapter'.released = adapter.released
       /\ adapter' = [adapter EXCEPT !.closes = @ + 1]]_vars

\* C25 witness: an asynchronous adapter that ran, was closed with its pool
\* released, and was closed again.
C25_Witness ==
  /\ is_async /\ adapter.runs >= 1 /\ adapter.closes = 2
  /\ adapter.last = "close" /\ adapter.released = 1 /\ ~adapter.open
  /\ ~adapter.raised

\* C26: over any sequence of set and clear, exists(k) is true exactly when
\* k was set and not cleared since, and get(k) returns exactly the text of
\* the latest set(k), absent when there is none.
C26_CacheContract ==
  \A k \in CacheKeys :
    /\ TemplateExists(cache_dir, k) <=> latest[k].exists
    /\ TemplateGet(cache_dir, k) = latest[k]

\* C28: whenever Generate is invoked on an attempt after the first, its
\* prompt holds the error string of the immediately preceding attempt and
\* the text that attempt executed; on the first attempt it holds neither.
C28_GenerateGetsPreviousAttempt ==
  \A c \in Calls :
    pc[c] = "generate" =>
      IF it[c] = 0
      THEN GeneratePrompt(c) = [error |-> NoErrorStr, prev_template |-> NoneText]
      ELSE /\ GeneratePrompt(c).error =
                ErrorStr(ErrorPrefix(last_exc[c].kind), last_exc[c])
           /\ GeneratePrompt(c).error.exc.att = it[c]
           /\ hist[c].execs = it[c]
           /\ GeneratePrompt(c).prev_template = hist[c].executed
           /\ hist[c].executed # NoneText

\* C28 witness: the third attempt of a call generates after the second
\* attempt failed in the materializer, the first having failed in the run.
C28_Witness ==
  /\ pc[1] = "generate" /\ it[1] = 2 /\ hist[1].failAtt = 2
  /\ GeneratePrompt(1).error = ErrorStr("Parsing/Validation error", Exc("parse", 2))
  /\ GeneratePrompt(1).prev_template = hist[1].executed

\* C29: when statement k of a body fails in the synchronous adapter, the
\* statements 1..k-1 were executed before it and are rolled back, no
\* statement after k is executed, and the backend data is what it was
\* before the call.
C29_SyncBodyIsOneTransaction ==
  \A c \in Calls :
    (~is_async /\ pc[c] = "ran" /\ last_exc[c].kind = "exec") =>
      LET stmts == Stmts(hist[c].executed)
          k == Len(hist[c].log)
      IN /\ db = hist[c].dbBefore
         /\ k >= 1 /\ k <= Len(stmts)
         /\ \A i \in 1..k : hist[c].log[i] = Sent(i, stmts[i], TRUE)
         /\ StmtFails(stmts[k])
         /\ \A i \in 1..(k - 1) : ~StmtFails(stmts[i])

\* C29 witness: on a table with a row, a body whose first statement inserts
\* and whose second fails: both were sent and the table is as before.
C29_Witness ==
  /\ ~is_async /\ pc[1] = "ran" /\ hist[1].executed = "INS_BAD"
  /\ last_exc[1] = Exc("exec", 1)
  /\ Len(hist[1].log) = 2 /\ hist[1].dbBefore = 1 /\ db = 1

\* C30: in the asynchronous adapter a body without substitution markers
\* gives the outcome the templated path gives for the same body: it
\* succeeds or fails alike, with the rows of the last row-returning
\* statement, otherwise the sum of the statements' row counts.
C30_FastPathEqualsTemplatedPath ==
  \A c \in Calls :
    (is_async /\ pc[c] = "ran" /\ hist[c].executed # NoneText
              /\ ~HasMarker(hist[c].executed)) =>
      LET r == AsyncTemplatedPath(hist[c].executed, hist[c].dbBefore)
      IN /\ (last_exc[c] = NoExc) <=> (r.err = NoError)
         /\ result_data[c] = r.out

\* C31: when the templating raises, the run fails with the render error,
\* no statement of the body was handed to the backend and the backend data
\* is what it was before the run, in the synchronous and in the
\* asynchronous adapter.
C31_RenderErrorBeforeExecution ==
  \A c \in Calls :
    pc[c] = "ran" =>
      /\ (hist[c].executed # NoneText /\ ~Renders(hist[c].executed)
            /\ (is_async => HasMarker(hist[c].executed))) =>
           last_exc[c] = Exc("render", 1)
      /\ last_exc[c].kind = "render" =>
           /\ hist[c].log = <<>>
           /\ db = hist[c].dbBefore
           /\ result_data[c] = NoOutcome

\* C31 witness: the asynchronous adapter failed to render a text on a table
\* that holds a row.
C31_Witness ==
  /\ is_async /\ pc[1] = "ran" /\ hist[1].executed = "JINJA_ERR"
  /\ last_exc[1] = Exc("render", 1) /\ hist[1].dbBefore = 1 /\ db = 1

\* C32: the connections held are exactly those of the operations still
\* inside their with block: a run that has returned or raised, on any
\* path and in either adapter, holds no connection.
C32_ConnectionsReleased ==
  adapter.held = Cardinality({c \in Calls : pc[c] = "acquired"})

\* C32 witness: a run that took a connection ended with an exception, and
\* no connection is held.
C32_Witness ==
  /\ adapter.last = "run" /\ adapter.raised /\ adapter.runs >= 2
  /\ \A c \in Calls : pc[c] = "idle"
  /\ adapter.held = 0 /\ (is_async \/ adapter.idle >= 1)

\* C33: as long as the adapter is not closed, any number of sequential or
\* interleaved init_pool_async, init_schema_async and run_sql_async calls
\* create at most one pool.
C33_PoolCreatedOnce == adapter.created <= 1

\* The number of leaf entries of a nested mapping.
RECURSIVE LeafCount(_)
LeafCount(m) ==
  IF DOMAIN m = {} THEN 0
  ELSE LET k == CHOOSE x \in DOMAIN m : TRUE
           rest == [x \in DOMAIN m \ {k} |-> m[x]]
       IN (IF m[k].t = "dict" THEN LeafCount(m[k].m) ELSE 1) + LeafCount(rest)

\* C34: the nested result of a flat row has as many leaf entries as the row
\* has keys, also when a direct key has the name of a prefix.  Stated for
\* the rows without a null value, in which no group collapses.
C34_UnflattenKeepsKeyCount ==
  (applied = 1 /\ \A k \in DOMAIN flat_dict : flat_dict[k].t = "leaf") =>
    LeafCount(unflattened) = Cardinality(DOMAIN flat_dict)

\* C35: every row count a run returns is a non-negative integer, whatever
\* the body and whatever count the backend reports for its statements.
C35_RowCountNonNegative ==
  \A c \in Calls :
    (pc[c] = "ran" /\ last_exc[c] = NoExc /\ result_data[c].kind = "int") =>
      result_data[c].n >= 0

\* The data after the first i statements of a body ran on data d.
RECURSIVE DataAfter(_, _, _)
DataAfter(stmts, i, d) ==
  IF i = 0 THEN d ELSE DataAfter(stmts, i - 1, d) + StmtWrites(stmts[i])

\* C36: in the asynchronous adapter a body runs without an enclosing
\* transaction: when statement k fails the call fails, the statements after
\* k are not executed and the effects of statements 1..k-1 stay applied.
C36_AsyncBodyNotTransactional ==
  \A c \in Calls :
    (/\ is_async /\ pc[c] = "ran" /\ hist[c].executed # NoneText
     /\ Renders(hist[c].executed)
     /\ \E i \in 1..Len(Stmts(hist[c].executed)) :
          StmtFails(Stmts(hist[c].executed)[i])) =>
      LET stmts == Stmts(hist[c].executed)
          k == CHOOSE i \in 1..Len(stmts) :
                 StmtFails(stmts[i]) /\ \A j \in 1..(i - 1) : ~StmtFails(stmts[j])
      IN /\ last_exc[c] # NoExc
         /\ db = DataAfter(stmts, k - 1, hist[c].dbBefore)

\* C37: for every url at most one Database is ever constructed, whatever
\* the interleaving of the callers of get_db, and all callers get that
\* one.
C37_OneDatabasePerUrl ==
  /\ \A u \in Urls : Cardinality(engines[u]) <= 1
  /\ \A c, d \in Calls :
       (got[c].url = got[d].url /\ got[c].inst # 0 /\ got[d].inst # 0) =>
         got[c].inst = got[d].inst

\* Function d has just generated a text and written it to the cache.
Regenerates(d) ==
  pc[d] = "idle" /\ pc'[d] = "execute" /\ tmpl'[d].how = "generated"

\* C38: the cache entry of a function is chosen by its template name
\* alone.  When one of two functions with the same name regenerates, the
\* text the other one will read and execute is the regenerated one,
\* whatever their shapes and backends; with different names the other
\* one's entry stays as it was.  A text read from the cache is the latest
\* one written under that name.
C38_TemplateKeyedByNameOnly ==
  [][/\ \A c \in Calls :
          (pc[c] = "idle" /\ pc'[c] = "execute" /\ tmpl'[c].how = "cached") =>
            /\ tmpl'[c].exists
            /\ tmpl'[c].text = ReadText(latest[TemplateName(decl[c])].text)
     /\ \A c, d \in Calls :
          (c # d /\ Regenerates(d)) =>
            IF TemplateName(decl[c]) = TemplateName(decl[d])
            THEN TemplateGet(cache_dir', CacheKeyOf(decl[c])) =
                   File(ReadText(tmpl'[d].text))
            ELSE cache_dir'[CacheKeyOf(decl[c])] =
                   cache_dir[CacheKeyOf(decl[c])]]_vars

\* C38 witness: two functions of the same name with different shapes and
\* backends; the second generated a text and the first, which never
\* generated, obtained that text from the cache.
C38_Witness ==
  /\ decl[1].func_name = decl[2].func_name
  /\ decl[1].name = NoneText /\ decl[2].name = NoneText
  /\ decl[1].shape # decl[2].shape /\ decl[1].url # decl[2].url
  /\ tmpl[2].how = "generated" /\ tmpl[1].how = "cached"
  /\ tmpl[1].text = tmpl[2].text /\ tmpl[1].text = <<"S", "LF", "S">>

\* C39: a prefix group with at least one non-null leaf, falsy values
\* included, is kept as a nested mapping that holds every one of its keys;
\* only a group whose leaves are all null becomes null, and the root
\* mapping is never replaced by null.
C39_CollapseOnlyWhenAllNull ==
  applied = 1 =>
    /\ \A k \in DOMAIN flat_dict : \A n \in 1 .. Len(k) - 1 :
         LET p == SubSeq(k, 1, n)
             under == {x \in DOMAIN flat_dict : IsPrefix(p, x)}
         IN (\E x \in under : flat_dict[x] # Null) =>
              /\ At(unflattened, p).t = "dict"
              /\ \A x \in under : At(unflattened, x) # Leaf("absent")
    /\ DOMAIN flat_dict # {} => DOMAIN unflattened # {}

\* C40: the attempt count is at least 1 for every repair value, and a call
\* that does not return a value raises the error its last iteration
\* captured; the RuntimeError that follows the loop is never raised.
C40_NoTrailingRuntimeError ==
  /\ Attempts(repair) >= 1
  /\ (~repair.isint \/ repair.v < 0) => Attempts(repair) = 1
  /\ \A c \in Calls :
       pc[c] = "raised" =>
         /\ ret[c].exc.kind # "runtime"
         /\ last_exc[c] # NoExc
         /\ ret[c].exc = last_exc[c]
====
